---- MODULE Spec2Model ----
(***************************************************************************)
(* Model of the streaming layer of acp-factory (python):                   *)
(*   - Pushable (pushable.py): push-based async iterable,                  *)
(*   - ACPClientHandler's session-stream registry (client_handler.py),     *)
(*   - Session.prompt / Session.interrupt_with (session.py),               *)
(*   - ACPClientHandler's permission handling (client_handler.py).         *)
(*   - Session.cancel / flush / fork / fork_with_flush (session.py),       *)
(*   - AgentHandle.fork_session / load_session (agent_handle.py).          *)
(* asyncio is single threaded and cooperative: every action below is the   *)
(* code that runs between two suspension points (await / yield).           *)
(***************************************************************************)
EXTENDS Integers, Sequences, FiniteSets, TLC

\* ------------------------------------------------------------------ bounds
MaxPush == 3        \* number of push calls on the stand-alone Pushable
MaxUpdates == 2     \* number of session_update calls of the agent
MaxFut == 4         \* number of asyncio futures (waiters) ever created
MaxStreams == 3     \* number of Pushable objects in use at one time
MaxRequests == 2    \* number of interactive permission requests (request ids)
MaxOptions == 2     \* length of the options list of a permission request

Consumers == {"c1", "c2"}   \* tasks calling __anext__ on the stand-alone Pushable
Sessions == {"s1", "s2"}    \* session ids the registry is keyed by
Prompted == {"s1"}          \* the session the prompt turns below run on
Runs == {"r1", "r2"}        \* calls of Session.prompt / Session.interrupt_with
NoRun == "-"

NoItem == 0
Items == 1..(IF MaxPush >= MaxUpdates /\ MaxPush >= MaxRequests THEN MaxPush
             ELSE IF MaxUpdates >= MaxRequests THEN MaxUpdates ELSE MaxRequests)
\* futures: those of the stand-alone Pushable's consumers are numbered
\* 1..MaxFut in creation order; run r has at most two futures in use at a
\* time, the waiter of its current update_task, UFut(r), and the waiter of
\* its current drain call, DFut(r)
RunIndex(r) == IF r = "r1" THEN 0 ELSE 1
UFut(r) == MaxFut + 2 * RunIndex(r) + 1
DFut(r) == MaxFut + 2 * RunIndex(r) + 2
FutIds == 1..(MaxFut + 2 * Cardinality(Runs))
StreamIds == 1..MaxStreams

\* request id n stands for the string "perm-n"; 0 stands for a string that
\* is no id of the handler
ReqIds == 1..MaxRequests
NoReq == 0
PermissionModes == {"auto-approve", "auto-deny", "callback", "interactive"}
\* the kind of an option; "other" is a kind the handler does not know
OptionKinds == {"allow_once", "allow_always", "reject_once", "reject_always", "other"}
\* the option at position i has optionId i; MaxOptions + 1 is an optionId
\* that no option of the list has
OptionIds == 1..(MaxOptions + 1)
NoOption == 0
KindLists == UNION {[1..n -> OptionKinds] : n \in 0..MaxOptions}
OptionList(kinds) == [i \in 1..Len(kinds) |-> [kind |-> kinds[i], optionId |-> i]]
OptionLists == {OptionList(k) : k \in KindLists}
NoSession == ""

\* the value request_permission returns: {"outcome": {"outcome": ..., "optionId": ...}}
NoResponse == [outcome |-> "none", optionId |-> NoOption]
Selected(o) == [outcome |-> "selected", optionId |-> o]
Cancelled == [outcome |-> "cancelled", optionId |-> NoOption]
\* a call that ended by raising exception e
Raised(e) == [outcome |-> e, optionId |-> NoOption]
\* a call that returned None
ReturnedNone == [outcome |-> "None", optionId |-> NoOption]
\* what a configured on_permission_request callback may return: an option id
\* of its own (test_client_handler.py 93-95: "custom"), or a cancellation
CallbackDecisions == {Selected(MaxOptions + 1), Cancelled}

VARIABLES
  heap,       \* Pushable objects: id -> [queue, waiters, done]
  fut,        \* asyncio futures: id -> [st, val]
  nfut,       \* number of futures created
  npush,      \* number of push calls made (item k is the k-th pushed item)
  lastPush,   \* what the most recent push call did with its item
  cpc,        \* consumer -> "idle" | "waiting"   (stand-alone Pushable)
  cfut,       \* consumer -> future it awaits
  cres,       \* consumer -> result of its latest __anext__ call
  observed,   \* consumer -> items its __anext__ calls returned
  accepted,   \* items pushed to the stand-alone Pushable before end()
  abandoned,  \* TRUE once some __anext__ call was abandoned by its caller
  seenAtEnd,  \* number of items the consumers had received when end() was called, -1 before
  session_streams,  \* ACPClientHandler._session_streams: session id -> Pushable id, 0 = no entry
  is_processing,    \* Session._is_processing, one Session object per session id
  pc,         \* run -> where the async generator Session.prompt stands
  sess,       \* run -> the session (self) it was called on
  cancel_sent,      \* session id -> number of remote cancel requests sent (connection.cancel)
  stream,     \* run -> local variable stream
  ptask,      \* run -> state of prompt_task (the remote prompt call)
  utask,      \* run -> state of update_task: [st, f, val]
  dwait,      \* run -> TRUE while its asyncio.wait_for(stream.__anext__()) awaits the waiter
  delivered,  \* run -> the updates the generator has yielded
  outcome,    \* run -> how the generator ended
  plog,       \* pushed item -> [run, tag]: which run's turn received the push, and when
  via,        \* run -> the method that started it: "prompt" | "interrupt_with"
  pcalls,     \* pushed item -> the runs whose remote prompt call was running at the push
  permission_mode,             \* ACPClientHandler._permission_mode
  on_permission_request,       \* TRUE when ClientHandlers.on_permission_request is set
  pending_permissions,         \* ACPClientHandler._pending_permissions: the request ids in the table
  permission_request_counter,  \* ACPClientHandler._permission_request_counter
  pobj,       \* request id -> the PendingPermission object created for it: [session_id, future]
  rcall,      \* request id -> the request_permission call that allocated it: [st, ret, run]
  events,     \* pushed item -> the PermissionRequestUpdate it is: [request_id, session_id]
  last,       \* the latest call of the handler's permission API, with its result
  held,       \* consumer -> the Pushable that get_session_stream returned to it, 0 = none
  hsess,      \* consumer -> the session id it asked the stream of
  origin,     \* pushed item -> the session id given to session_update
  fop,        \* the flush-based method that was called: "flush" | "fork_with_flush"
  fpc,        \* where that call stands
  polls,      \* number of 0.1 s sleeps _wait_for_idle can still make before its timeout
  became_idle,     \* local variable became_idle
  saw_processing,  \* what self._is_processing was when session.py 270 / 366 read it
  calls,      \* the remote calls the session has issued, in order: [method, session_id]
  flush_result,    \* local variable flush_result: the reply of the flush extension call
  fret,       \* how the flush-based method ended: its result or its exception
  capabilities,     \* AgentHandle.capabilities: what the agent advertised at initialize
  handle_sessions,  \* AgentHandle._sessions: the session ids that have a Session object
  hop,        \* the call of the AgentHandle in progress: [op, session_id, force_flush]
  hpc,        \* where that call stands
  needs_flush,      \* local variable needs_flush of AgentHandle.fork_session
  hret        \* how the call of the AgentHandle ended: its result or its exception

pushVars == <<heap, fut, nfut, npush, lastPush>>
consVars == <<cpc, cfut, cres, observed, accepted, abandoned, seenAtEnd>>
sessVars == <<session_streams, is_processing, cancel_sent, pc, sess, stream, ptask, utask,
              dwait, delivered, outcome, plog, via, pcalls>>
permVars == <<permission_mode, on_permission_request, pending_permissions,
              permission_request_counter, pobj, rcall, events, last>>
regVars == <<held, hsess, origin>>
flushVars == <<fop, fpc, polls, became_idle, saw_processing, calls, flush_result, fret>>
agentVars == <<capabilities, handle_sessions, hop, hpc, needs_flush, hret>>
vars == <<pushVars, consVars, sessVars, permVars, regVars, flushVars, agentVars>>

\* --------------------------------------------------------------- Pushable
\* Pushable.__init__
NewPushable == [queue |-> <<>>, waiters |-> <<>>, done |-> FALSE]

\* a future that was not created yet / asyncio loop.create_future()
FreeFuture == [st |-> "free", val |-> NoItem]
PendingFuture == [st |-> "pending", val |-> NoItem]

InSeq(x, s) == \E i \in 1..Len(s) : s[i] = x

\* push with a bug: a buffered item goes to the front of the queue
push_front(p, F, item) ==
  IF p.done
    THEN [p |-> p, F |-> F, how |-> "ignored"]
    ELSE IF p.waiters # <<>>
      THEN LET waiter == Head(p.waiters) IN
           IF F[waiter].st = "pending"
             THEN [p |-> [p EXCEPT !.waiters = Tail(@)],
                   F |-> [F EXCEPT ![waiter] = [st |-> "result", val |-> item]],
                   how |-> "handed"]
             ELSE [p |-> [p EXCEPT !.waiters = Tail(@)], F |-> F, how |-> "dropped"]
      ELSE [p |-> [p EXCEPT !.queue = <<item>> \o @], F |-> F, how |-> "buffered"]

\* push with a bug: the item goes to the waiter that came last (pop() for pop(0))
push_last_waiter(p, F, item) ==
  IF p.done
    THEN [p |-> p, F |-> F, how |-> "ignored"]
    ELSE IF p.waiters # <<>>
      THEN LET waiter == p.waiters[Len(p.waiters)] IN
           IF F[waiter].st = "pending"
             THEN [p |-> [p EXCEPT !.waiters = SubSeq(@, 1, Len(@) - 1)],
                   F |-> [F EXCEPT ![waiter] = [st |-> "result", val |-> item]],
                   how |-> "handed"]
             ELSE [p |-> [p EXCEPT !.waiters = SubSeq(@, 1, Len(@) - 1)], F |-> F,
                   how |-> "dropped"]
      ELSE [p |-> [p EXCEPT !.queue = Append(@, item)], F |-> F, how |-> "buffered"]

\* push with a bug: the test of _done is missing
push_no_done_check(p, F, item) ==
  IF p.waiters # <<>>
    THEN LET waiter == Head(p.waiters) IN
         IF F[waiter].st = "pending"
           THEN [p |-> [p EXCEPT !.waiters = Tail(@)],
                 F |-> [F EXCEPT ![waiter] = [st |-> "result", val |-> item]],
                 how |-> "handed"]
           ELSE [p |-> [p EXCEPT !.waiters = Tail(@)], F |-> F, how |-> "dropped"]
    ELSE [p |-> [p EXCEPT !.queue = Append(@, item)], F |-> F, how |-> "buffered"]

\* Pushable.push(item)
push(p, F, item) ==
  IF p.done
    THEN [p |-> p, F |-> F, how |-> "ignored"]
    ELSE IF p.waiters # <<>>
      THEN LET waiter == Head(p.waiters) IN
           IF F[waiter].st = "pending"      \* not waiter.done()
             THEN [p |-> [p EXCEPT !.waiters = Tail(@)],
                   F |-> [F EXCEPT ![waiter] = [st |-> "result", val |-> item]],
                   how |-> "handed"]
             ELSE [p |-> [p EXCEPT !.waiters = Tail(@)],
                   F |-> F,
                   how |-> "dropped"]
      ELSE [p |-> [p EXCEPT !.queue = Append(@, item)], F |-> F, how |-> "buffered"]

\* end with a bug: the waiter list is not cleared
end_keeps_waiters(p, F) ==
  [p |-> [p EXCEPT !.done = TRUE],
   F |-> [f \in DOMAIN F |->
            IF InSeq(f, p.waiters) /\ F[f].st = "pending"
              THEN [st |-> "cancelled", val |-> NoItem]
              ELSE F[f]]]

\* end with a bug: only the first waiter is cancelled
end_first_waiter_only(p, F) ==
  [p |-> [p EXCEPT !.done = TRUE, !.waiters = <<>>],
   F |-> [f \in DOMAIN F |->
            IF p.waiters # <<>> /\ f = Head(p.waiters) /\ F[f].st = "pending"
              THEN [st |-> "cancelled", val |-> NoItem]
              ELSE F[f]]]

\* Pushable.end()
end(p, F) ==
  [p |-> [p EXCEPT !.done = TRUE, !.waiters = <<>>],
   F |-> [f \in DOMAIN F |->
            IF InSeq(f, p.waiters) /\ F[f].st = "pending"
              THEN [st |-> "cancelled", val |-> NoItem]
              ELSE F[f]]]

\* Pushable.is_done()
is_done(p) == p.done

\* __anext__ with a bug: _done is tested before the queue
anext_done_first(p, F, f) ==
  IF p.done
    THEN [p |-> p, F |-> F, kind |-> "stop", val |-> NoItem]
    ELSE IF p.queue # <<>>
      THEN [p |-> [p EXCEPT !.queue = Tail(@)], F |-> F,
            kind |-> "item", val |-> Head(p.queue)]
      ELSE [p |-> [p EXCEPT !.waiters = Append(@, f)],
            F |-> [F EXCEPT ![f] = PendingFuture],
            kind |-> "wait", val |-> NoItem]

\* Pushable.__anext__ up to its await; f is the future create_future() returns
anext(p, F, f) ==
  IF p.queue # <<>>
    THEN [p |-> [p EXCEPT !.queue = Tail(@)], F |-> F,
          kind |-> "item", val |-> Head(p.queue)]
    ELSE IF p.done
      THEN [p |-> p, F |-> F, kind |-> "stop", val |-> NoItem]
      ELSE [p |-> [p EXCEPT !.waiters = Append(@, f)],
            F |-> [F EXCEPT ![f] = PendingFuture],
            kind |-> "wait", val |-> NoItem]

\* Pushable.__anext__ after its await: the waiter's result, or
\* StopAsyncIteration when the await raised CancelledError
awaited(F, f) ==
  IF F[f].st = "result"
    THEN [kind |-> "item", val |-> F[f].val]
    ELSE [kind |-> "stop", val |-> NoItem]

\* Future.cancel(): only a pending future changes
cancel_future(F, f) ==
  IF F[f].st = "pending" THEN [F EXCEPT ![f] = [st |-> "cancelled", val |-> NoItem]] ELSE F

\* ------------------------------------------- the stand-alone Pushable (P0)
P0 == 1

InitPushVars ==
  /\ heap = [i \in StreamIds |-> NewPushable]
  /\ fut = [f \in FutIds |-> FreeFuture]
  /\ nfut = 0
  /\ npush = 0
  /\ lastPush = "none"

InitConsVars ==
  /\ cpc = [c \in Consumers |-> "idle"]
  /\ cfut = [c \in Consumers |-> 0]
  /\ cres = [c \in Consumers |-> "none"]
  /\ observed = [c \in Consumers |-> <<>>]
  /\ accepted = <<>>
  /\ abandoned = FALSE
  /\ seenAtEnd = -1

InitRegVars ==
  /\ held = [c \in Consumers |-> 0]
  /\ hsess = [c \in Consumers |-> NoSession]
  /\ origin = [k \in Items |-> NoSession]

\* None, and a key that a dict of the protocol does not have
None == "None"
Absent == "absent"
\* the reply of the flush extension call: {"success": ..., "error": ..., "filePath": ...}
Reply(success, error, filePath) == [success |-> success, error |-> error, filePath |-> filePath]
NoDict == Reply(Absent, Absent, Absent)
\* a local variable that was not assigned yet
Unset == Reply("unset", "unset", "unset")
\* what a flush-based method ends with: a FlushResult, a Session, an exception
FlushResult(success, file_path, error) ==
  [kind |-> "FlushResult", success |-> success, file_path |-> file_path, error |-> error,
   session_id |-> NoSession]
NewSession(session_id) ==
  [kind |-> "Session", success |-> TRUE, file_path |-> None, error |-> None,
   session_id |-> session_id]
RaisedExc(exc, message) ==
  [kind |-> exc, success |-> FALSE, file_path |-> None, error |-> message,
   session_id |-> NoSession]
NoResult ==
  [kind |-> "none", success |-> FALSE, file_path |-> None, error |-> None,
   session_id |-> NoSession]

InitFlushVars ==
  /\ fop = "none"
  /\ fpc = "idle"
  /\ polls = 0
  /\ became_idle = FALSE
  /\ saw_processing = FALSE
  /\ calls = <<>>
  /\ flush_result = Unset
  /\ fret = NoResult

\* AgentHandle.capabilities (agent_handle.py 103-112): the dict the agent
\* advertised; loadSession is capabilities.get("loadSession", False) and
\* fork is capabilities.get("sessionCapabilities", {}).get("fork")
Capabilities == [loadSession : BOOLEAN, fork : BOOLEAN]
FullCapabilities == [loadSession |-> TRUE, fork |-> TRUE]
\* a call of AgentHandle.fork_session / AgentHandle.load_session
HandleCall(op, session_id, force_flush) ==
  [op |-> op, session_id |-> session_id, force_flush |-> force_flush]
NoHandleCall == HandleCall("none", NoSession, FALSE)

\* the AgentHandle after create_session has returned the Session objects of
\* the prompted sessions (agent_handle.py 44-49, 150-160)
InitAgentVars(caps) ==
  /\ capabilities = caps
  /\ handle_sessions = Prompted
  /\ hop = NoHandleCall
  /\ hpc = "idle"
  /\ needs_flush = FALSE
  /\ hret = NoResult

\* number of items the consumers of the stand-alone Pushable have received
RECURSIVE SumLen(_, _)
SumLen(f, D) ==
  IF D = {} THEN 0 ELSE LET c == CHOOSE x \in D : TRUE IN Len(f[c]) + SumLen(f, D \ {c})
Seen == SumLen(observed, Consumers)

\* a producer calls pushable.push(item)
Push ==
  /\ npush < MaxPush
  /\ LET r == push(heap[P0], fut, npush + 1) IN
       /\ heap' = [heap EXCEPT ![P0] = r.p]
       /\ fut' = r.F
       /\ lastPush' = r.how
       /\ accepted' = IF heap[P0].done THEN accepted ELSE Append(accepted, npush + 1)
  /\ npush' = npush + 1
  /\ UNCHANGED <<nfut, cpc, cfut, cres, observed, abandoned, seenAtEnd, sessVars, permVars, regVars, flushVars, agentVars>>

\* somebody calls pushable.end()
End ==
  /\ ~heap[P0].done
  /\ LET r == end(heap[P0], fut) IN
       /\ heap' = [heap EXCEPT ![P0] = r.p]
       /\ fut' = r.F
  /\ seenAtEnd' = Seen
  /\ UNCHANGED <<nfut, npush, lastPush, cpc, cfut, cres, observed, accepted, abandoned,
                 sessVars, permVars, regVars, flushVars, agentVars>>

\* consumer c calls pushable.__anext__(): runs to its return, raise or await
NextCall(c) ==
  /\ cpc[c] = "idle"
  /\ LET r == anext(heap[P0], fut, nfut + 1) IN
       /\ r.kind = "wait" => nfut < MaxFut
       /\ heap' = [heap EXCEPT ![P0] = r.p]
       /\ fut' = r.F
       /\ nfut' = IF r.kind = "wait" THEN nfut + 1 ELSE nfut
       /\ cpc' = [cpc EXCEPT ![c] = IF r.kind = "wait" THEN "waiting" ELSE "idle"]
       /\ cfut' = [cfut EXCEPT ![c] = IF r.kind = "wait" THEN nfut + 1 ELSE 0]
       /\ cres' = [cres EXCEPT ![c] = r.kind]
       /\ observed' = [observed EXCEPT ![c] = IF r.kind = "item" THEN Append(@, r.val) ELSE @]
  /\ UNCHANGED <<npush, lastPush, accepted, abandoned, seenAtEnd, sessVars, permVars, regVars, flushVars, agentVars>>

\* the await in __anext__ returns: the consumer's waiter is done
Wake(c) ==
  /\ cpc[c] = "waiting"
  /\ fut[cfut[c]].st \in {"result", "cancelled"}
  /\ LET r == awaited(fut, cfut[c]) IN
       /\ cres' = [cres EXCEPT ![c] = r.kind]
       /\ observed' = [observed EXCEPT ![c] = IF r.kind = "item" THEN Append(@, r.val) ELSE @]
  /\ cpc' = [cpc EXCEPT ![c] = "idle"]
  /\ cfut' = [cfut EXCEPT ![c] = 0]
  /\ UNCHANGED <<pushVars, accepted, abandoned, seenAtEnd, sessVars, permVars, regVars, flushVars, agentVars>>

\* the caller of __anext__ gives up while it is suspended (asyncio.wait_for
\* timeout or Task.cancel, as Session.prompt does): the waiter is cancelled
\* and stays in _waiters
Abandon(c) ==
  /\ cpc[c] = "waiting"
  /\ fut[cfut[c]].st = "pending"
  /\ fut' = cancel_future(fut, cfut[c])
  /\ cpc' = [cpc EXCEPT ![c] = "idle"]
  /\ cfut' = [cfut EXCEPT ![c] = 0]
  /\ cres' = [cres EXCEPT ![c] = "stop"]
  /\ abandoned' = TRUE
  /\ UNCHANGED <<heap, nfut, npush, lastPush, observed, accepted, seenAtEnd, sessVars, permVars, regVars, flushVars, agentVars>>

NoTask == [st |-> "none", val |-> NoItem]
NoLog == [run |-> NoRun, tag |-> "unpushed"]

InitSessVars ==
  /\ session_streams = [s \in Sessions |-> 0]
  /\ is_processing = [s \in Sessions |-> FALSE]
  /\ pc = [r \in Runs |-> "idle"]
  /\ sess = [r \in Runs |-> "s1"]
  /\ cancel_sent = [s \in Sessions |-> 0]
  /\ stream = [r \in Runs |-> 0]
  /\ ptask = [r \in Runs |-> "none"]
  /\ utask = [r \in Runs |-> NoTask]
  /\ dwait = [r \in Runs |-> FALSE]
  /\ delivered = [r \in Runs |-> <<>>]
  /\ outcome = [r \in Runs |-> "none"]
  /\ plog = [k \in 1..MaxUpdates |-> NoLog]
  /\ via = [r \in Runs |-> "none"]
  /\ pcalls = [k \in 1..MaxUpdates |-> {}]

\* PendingPermission.__init__: the future is not done
PendingPermission(session_id) == [session_id |-> session_id, future |-> NoResponse]
NoPending == PendingPermission(NoSession)
NoCall == [st |-> "none", ret |-> NoResponse, run |-> NoRun]
NoEvent == [request_id |-> NoReq, session_id |-> NoSession]
NoLast == [op |-> "none", session_id |-> NoSession, options |-> <<>>, request_id |-> NoReq,
           option_id |-> NoOption, ret |-> NoResponse, decision |-> NoResponse]

\* ACPClientHandler.__init__ with the given permission mode and handlers
InitPermVars(mode, handler) ==
  /\ permission_mode = mode
  /\ on_permission_request = handler
  /\ pending_permissions = {}
  /\ permission_request_counter = 0
  /\ pobj = [n \in ReqIds |-> NoPending]
  /\ rcall = [n \in ReqIds |-> NoCall]
  /\ events = [k \in Items |-> NoEvent]
  /\ last = NoLast

\* ------------------------------------------- properties of the Pushable
\* the item a suspended consumer has been handed and not yet returned
InFlight(c) ==
  IF cpc[c] = "waiting" /\ fut[cfut[c]].st = "result" THEN <<fut[cfut[c]].val>> ELSE <<>>

\* the consumers suspended in __anext__, and the one suspended longest
Suspended == {c \in Consumers : cpc[c] = "waiting" /\ fut[cfut[c]].st = "pending"}
LongestWaiting == CHOOSE c \in Suspended : \A d \in Suspended : cfut[c] <= cfut[d]

Increasing(q) == \A i, j \in 1..Len(q) : i < j => q[i] < q[j]
Elems(q) == {q[i] : i \in 1..Len(q)}

\* the steps of the stand-alone Pushable, told by what they change
IsPush == npush' = npush + 1
IsEnd == ~heap[P0].done /\ heap'[P0].done
IsNextCall(c) ==
  /\ cpc[c] = "idle"
  /\ cpc'[c] # cpc[c] \/ cres'[c] # cres[c] \/ observed'[c] # observed[c]
IsWake(c) == cpc[c] = "waiting" /\ cpc'[c] = "idle" /\ fut[cfut[c]].st # "pending"

\* C3: with a single consumer and only push, next and end (no abandoned
\* call), what the consumer has received, followed by the item it has been
\* handed and by the buffer, is the sequence of the pushes made before end():
\* nothing lost, duplicated or reordered.
C3_SingleConsumerOrder ==
  (cres["c2"] = "none" /\ ~abandoned) =>
     observed["c1"] \o InFlight("c1") \o heap[P0].queue = accepted

\* C3 witness: the single consumer received three pushes in order and then
\* the end of the sequence.
C3_Witness ==
  /\ cres["c2"] = "none" /\ ~abandoned
  /\ heap[P0].done /\ cres["c1"] = "stop"
  /\ observed["c1"] = <<1, 2, 3>>
  /\ nfut > 0

\* C4: a push made while consumers are suspended (and every waiter in the
\* list is such a consumer) goes to the one suspended longest and is not
\* buffered; always, each consumer's items are in push order and no item is
\* received by two consumers.
C4_LongestWaiterFirst ==
  /\ [][(IsPush /\ ~heap[P0].done /\ Suspended # {}
          /\ \A i \in 1..Len(heap[P0].waiters) : fut[heap[P0].waiters[i]].st = "pending")
        => /\ fut'[cfut[LongestWaiting]] = [st |-> "result", val |-> npush + 1]
           /\ heap'[P0].queue = heap[P0].queue
           /\ \A d \in Suspended \ {LongestWaiting} : fut'[cfut[d]] = fut[cfut[d]]]_vars
  /\ [](\A c \in Consumers :
          /\ Increasing(observed[c] \o InFlight(c))
          /\ \A d \in Consumers \ {c} :
               Elems(observed[c] \o InFlight(c)) \cap Elems(observed[d] \o InFlight(d)) = {})

\* C4 witness: two consumers were suspended, one push was made, and the
\* consumer suspended first holds it while the other still waits.
C4_Witness ==
  /\ cpc["c1"] = "waiting" /\ cpc["c2"] = "waiting"
  /\ npush = 1 /\ heap[P0].queue = <<>>
  /\ \E c \in Consumers : \E d \in Consumers \ {c} :
       /\ cfut[c] < cfut[d]
       /\ fut[cfut[c]] = [st |-> "result", val |-> 1]
       /\ fut[cfut[d]].st = "pending"

\* C5: a push after end() changes neither the buffer nor the waiters nor any
\* future, reports nothing but "ignored", and its item is never in a buffer,
\* in a future or among the items a consumer received.
C5_PushAfterEndNoOp ==
  /\ [][(IsPush /\ heap[P0].done)
        => (heap' = heap /\ fut' = fut /\ lastPush' = "ignored"
            /\ observed' = observed /\ accepted' = accepted)]_vars
  /\ [](\A k \in 1..npush :
          k \notin Elems(accepted) =>
            /\ k \notin Elems(heap[P0].queue)
            /\ \A f \in FutIds : fut[f].val # k
            /\ \A c \in Consumers : k \notin Elems(observed[c]))

\* C5 witness: an item was pushed, the Pushable ended, another item was
\* pushed, and the consumer received the first item and then the end.
C5_Witness ==
  /\ heap[P0].done /\ lastPush = "ignored"
  /\ accepted = <<1>> /\ npush = 2
  /\ observed["c1"] = <<1>> /\ cres["c1"] = "stop"

\* C6: end() cancels the waiter of every consumer suspended at that moment;
\* such a consumer then gets StopAsyncIteration and no item, and after end()
\* no consumer is left suspended on a pending waiter.
C6_EndReleasesWaiters ==
  /\ [][IsEnd => \A c \in Suspended : fut'[cfut[c]].st = "cancelled"]_vars
  /\ [][\A c \in Consumers :
          (IsWake(c) /\ fut[cfut[c]].st = "cancelled")
            => (cres'[c] = "stop" /\ observed'[c] = observed[c])]_vars
  /\ [](heap[P0].done => Suspended = {})

\* C6 witness: both consumers were suspended when end() was called and both
\* have returned with the end of the sequence, without an item.
C6_Witness ==
  /\ heap[P0].done /\ npush = 0 /\ nfut = 2 /\ ~abandoned
  /\ \A c \in Consumers : cpc[c] = "idle" /\ cres[c] = "stop" /\ observed[c] = <<>>

\* C7: after end() a call of __anext__ never suspends: it returns the head of
\* the buffer while there is one, and signals the end of the sequence once
\* the buffer is empty.
C7_NextAfterEnd ==
  [][\A c \in Consumers :
       (IsNextCall(c) /\ heap[P0].done) =>
         /\ cpc'[c] = "idle"
         /\ IF heap[P0].queue # <<>>
              THEN /\ cres'[c] = "item"
                   /\ observed'[c] = Append(observed[c], Head(heap[P0].queue))
                   /\ heap'[P0].queue = Tail(heap[P0].queue)
              ELSE /\ cres'[c] = "stop"
                   /\ observed'[c] = observed[c]]_vars

\* C7 witness: two items were buffered when end() was called, and the
\* consumer has taken both after it and then got the end of the sequence.
C7_Witness ==
  /\ heap[P0].done /\ seenAtEnd = 0 /\ nfut = 0
  /\ observed["c1"] = <<1, 2>> /\ cres["c1"] = "stop"

InitPushable ==
  /\ InitPushVars
  /\ InitConsVars
  /\ InitRegVars
  /\ InitFlushVars
  /\ InitAgentVars(FullCapabilities)
  /\ InitSessVars
  /\ InitPermVars("auto-approve", FALSE)

NextPushable ==
  \/ Push
  \/ End
  \/ \E c \in Consumers : NextCall(c)
  \/ \E c \in Consumers : Wake(c)
  \/ \E c \in Consumers : Abandon(c)

SpecPushable == InitPushable /\ [][NextPushable]_vars

\* ------------------------------------------------- session-stream registry
\* get_session_stream with a bug: the entry of the session id is not the one
\* looked up, the first entry of the table is returned
get_session_stream_first_entry(S, H, new, s) ==
  IF S[s] = 0
    THEN [S |-> [S EXCEPT ![s] = new], H |-> [H EXCEPT ![new] = NewPushable], id |-> new]
    ELSE LET B == {S[t] : t \in {u \in Sessions : S[u] # 0}} IN
         [S |-> S, H |-> H, id |-> CHOOSE i \in B : \A j \in B : i <= j]

\* get_session_stream with a bug: a session without an entry is given the
\* queue of a session that has one
get_session_stream_shared(S, H, new, s) ==
  IF S[s] = 0
    THEN LET B == {S[t] : t \in {u \in Sessions : S[u] # 0}} IN
         IF B = {}
           THEN [S |-> [S EXCEPT ![s] = new], H |-> [H EXCEPT ![new] = NewPushable],
                 id |-> new]
           ELSE LET o == CHOOSE i \in B : \A j \in B : i <= j IN
                [S |-> [S EXCEPT ![s] = o], H |-> H, id |-> o]
    ELSE [S |-> S, H |-> H, id |-> S[s]]

\* ACPClientHandler.get_session_stream(session_id); new is the object that
\* Pushable() returns when the session has no entry
get_session_stream(S, H, new, s) ==
  IF S[s] = 0
    THEN [S |-> [S EXCEPT ![s] = new], H |-> [H EXCEPT ![new] = NewPushable], id |-> new]
    ELSE [S |-> S, H |-> H, id |-> S[s]]

\* end_session_stream with a bug: the entry is deleted, the queue is not ended
end_session_stream_unbind_only(S, H, F, s) ==
  IF S[s] # 0
    THEN [S |-> [S EXCEPT ![s] = 0], H |-> H, F |-> F]
    ELSE [S |-> S, H |-> H, F |-> F]

\* end_session_stream with a bug: the entry is not deleted
end_session_stream_keep(S, H, F, s) ==
  IF S[s] # 0
    THEN LET e == end(H[S[s]], F) IN
         [S |-> S, H |-> [H EXCEPT ![S[s]] = e.p], F |-> e.F]
    ELSE [S |-> S, H |-> H, F |-> F]

\* ACPClientHandler.end_session_stream(session_id)
end_session_stream(S, H, F, s) ==
  IF S[s] # 0
    THEN LET e == end(H[S[s]], F) IN
         [S |-> [S EXCEPT ![s] = 0], H |-> [H EXCEPT ![S[s]] = e.p], F |-> e.F]
    ELSE [S |-> S, H |-> H, F |-> F]

\* --------------------------------------------------------- Session.prompt
\* the generator is started and not finished
Live(r) == pc[r] \in {"wait", "sleep", "drainwait", "yieldL", "yieldD"}

\* a Pushable object is in use while the registry, a live generator or a
\* consumer holds it; the memory of an object no longer in use is handed out
\* again by Pushable()
InUse(i) ==
  \/ \E s \in Sessions : session_streams[s] = i
  \/ \E r \in Runs : Live(r) /\ stream[r] = i
  \/ \E c \in Consumers : held[c] = i
HasRoom == \E i \in StreamIds : ~InUse(i)
NewStream == CHOOSE i \in StreamIds : ~InUse(i) /\ \A j \in StreamIds : j < i => InUse(j)

\* when, in the turn of run r, a push arrives
PushTag(r) ==
  IF pc[r] \in {"wait", "yieldL"}
    THEN (IF ptask[r] = "running" THEN "pre" ELSE "mid")
    ELSE "grace"

\* the run whose turn receives a push into Pushable o
PushLog(o) ==
  LET R == {r \in Runs : Live(r) /\ stream[r] = o} IN
  IF Cardinality(R) = 1
    THEN LET r == CHOOSE x \in R : TRUE IN [run |-> r, tag |-> PushTag(r)]
    ELSE [run |-> NoRun, tag |-> "other"]

\* how the generator ends once its loop is left (session.py 112-177): the
\* result of prompt_task is never read, so the generator just returns
loop_exit(pt) == "exhausted"

\* the finally block of Session.prompt (session.py 174-177), on the heap H and
\* the futures F that the step has produced so far
Finalize(r, how, H, F) ==
  LET e == end_session_stream(session_streams, H, F, sess[r]) IN
    /\ session_streams' = e.S
    /\ heap' = e.H
    /\ fut' = e.F
    /\ is_processing' = [is_processing EXCEPT ![sess[r]] = FALSE]
    /\ pc' = [pc EXCEPT ![r] = "done"]
    /\ outcome' = [outcome EXCEPT ![r] = how]
    /\ utask' = [utask EXCEPT ![r] = NoTask]
    /\ dwait' = [dwait EXCEPT ![r] = FALSE]

\* session.py 114: update_task = asyncio.create_task(stream.__anext__()).
\* The new task runs __anext__ up to its return, raise or await before the
\* generator runs again, and nothing that runs in between can tell that it
\* has not run yet: the step is taken together with the task's creation
create_update_task(p, F, f) ==
  LET a == anext(p, F, f) IN
    [p |-> a.p, F |-> a.F,
     u |-> [st |-> IF a.kind = "wait" THEN "waiting" ELSE a.kind, val |-> a.val]]

\* session.py 86-134: the first __anext__ of the generator runs to asyncio.wait
StartBody(r, s) ==
  /\ session_streams[s] = 0 => HasRoom
  /\ LET g == get_session_stream(session_streams, heap, NewStream, s)
         H == g.H
         c == create_update_task(H[g.id], fut, UFut(r))
     IN /\ session_streams' = g.S
        /\ heap' = [H EXCEPT ![g.id] = c.p]
        /\ fut' = c.F
        /\ utask' = [utask EXCEPT ![r] = c.u]
        /\ stream' = [stream EXCEPT ![r] = g.id]
  /\ is_processing' = [is_processing EXCEPT ![s] = TRUE]
  /\ ptask' = [ptask EXCEPT ![r] = "running"]
  /\ pc' = [pc EXCEPT ![r] = "wait"]
  /\ sess' = [sess EXCEPT ![r] = s]

\* runs are taken in order (r1 before r2)
MayStart(r) == pc[r] = "idle" /\ (r = "r2" => pc["r1"] \notin {"idle", "isleep"})

\* the application iterates session.prompt(content)
CallPrompt(r, s) ==
  /\ MayStart(r)
  /\ StartBody(r, s)
  /\ via' = [via EXCEPT ![r] = "prompt"]
  /\ UNCHANGED <<nfut, npush, lastPush, consVars, regVars, flushVars, agentVars, permVars, cancel_sent, dwait, delivered,
                 outcome, plog, pcalls>>

\* the application iterates session.interrupt_with(content): session.py
\* 199-202, the remote cancel is sent and the settling delay starts
InterruptWith(r, s) ==
  /\ MayStart(r)
  /\ cancel_sent' = [cancel_sent EXCEPT ![s] = @ + 1]
  /\ via' = [via EXCEPT ![r] = "interrupt_with"]
  /\ pc' = [pc EXCEPT ![r] = "isleep"]
  /\ sess' = [sess EXCEPT ![r] = s]
  /\ UNCHANGED <<pushVars, consVars, regVars, flushVars, agentVars, permVars, session_streams, is_processing, stream, ptask,
                 utask, dwait, delivered, outcome, plog, pcalls>>

\* session.py 205: the settling delay is over, self.prompt(content) starts
InterruptStart(r) ==
  /\ pc[r] = "isleep"
  /\ StartBody(r, sess[r])
  /\ UNCHANGED <<nfut, npush, lastPush, consVars, regVars, flushVars, agentVars, permVars, cancel_sent, via, dwait, delivered,
                 outcome, plog, pcalls>>

\* the runs on session s whose remote prompt call has not returned
PromptCalls(s) == {r \in Runs : Live(r) /\ sess[r] = s /\ ptask[r] = "running"}

\* ACPClientHandler.session_update(session_id, update): the agent sends an update
SessionUpdate(s) ==
  /\ npush < MaxUpdates
  /\ session_streams[s] = 0 => HasRoom
  /\ LET g == get_session_stream(session_streams, heap, NewStream, s)
         H == g.H
         r == push(H[g.id], fut, npush + 1)
     IN /\ session_streams' = g.S
        /\ heap' = [H EXCEPT ![g.id] = r.p]
        /\ fut' = r.F
        /\ plog' = [plog EXCEPT ![npush + 1] = PushLog(g.id)]
        /\ pcalls' = [pcalls EXCEPT ![npush + 1] = PromptCalls(s)]
  /\ npush' = npush + 1
  /\ origin' = [origin EXCEPT ![npush + 1] = s]
  /\ UNCHANGED <<nfut, lastPush, consVars, held, hsess, flushVars, agentVars, permVars, is_processing, cancel_sent, via, pc, sess, stream,
                 ptask, utask, dwait, delivered, outcome>>

\* the remote prompt call of run r returns or fails: prompt_task is done
\* (after the generator has finished nothing reads prompt_task any more).
\* The agent ends a turn only when the permission requests it made in the
\* turn have returned
PromptComplete(r, res) ==
  /\ Live(r)
  /\ ptask[r] = "running"
  /\ \A n \in ReqIds : ~(rcall[n].st = "suspended" /\ rcall[n].run = r)
  /\ ptask' = [ptask EXCEPT ![r] = res]
  /\ UNCHANGED <<pushVars, consVars, regVars, flushVars, agentVars, permVars, session_streams, is_processing, cancel_sent, via, pc,
                 sess, stream, utask, dwait, delivered, outcome, plog, pcalls>>

\* what update_task holds when the generator looks at it: a task awaiting
\* a waiter that is done has finished with the waiter's outcome
task_state(u, F, f) ==
  IF u.st = "waiting" /\ F[f].st \in {"result", "cancelled"}
    THEN LET a == awaited(F, f) IN [st |-> a.kind, val |-> a.val]
    ELSE u

\* Task.cancel() on update_task (session.py 144-149): a pending waiter is
\* cancelled and stays in _waiters; a waiter that already holds an item is
\* left, and the task raises CancelledError instead of returning the item
cancel_update_task(F, u, f) ==
  IF u.st = "waiting"
    THEN (IF F[f].st = "pending" THEN cancel_future(F, f) ELSE [F EXCEPT ![f] = FreeFuture])
    ELSE F

\* session.py 134-169: asyncio.wait returns, the generator handles the result
WaitResume(r) ==
  LET u == task_state(utask[r], fut, UFut(r)) IN
  /\ pc[r] = "wait"
  /\ ptask[r] # "running" \/ u.st \in {"item", "stop"}
  /\ IF ptask[r] # "running"
       THEN \* prompt_task in done: update_task is cancelled when pending, and
            \* its result is not read when it is done
            /\ fut' = cancel_update_task(fut, utask[r], UFut(r))
            /\ utask' = [utask EXCEPT ![r] = NoTask]
            /\ pc' = [pc EXCEPT ![r] = "sleep"]
            /\ UNCHANGED <<heap, session_streams, is_processing, delivered, outcome, dwait>>
       ELSE IF u.st = "item"
         THEN /\ delivered' = [delivered EXCEPT ![r] = Append(@, u.val)]
              /\ utask' = [utask EXCEPT ![r] = NoTask]
              /\ fut' = [fut EXCEPT ![UFut(r)] = FreeFuture]
              /\ pc' = [pc EXCEPT ![r] = "yieldL"]
              /\ UNCHANGED <<heap, session_streams, is_processing, outcome, dwait>>
         ELSE /\ Finalize(r, loop_exit(ptask[r]), heap, fut)
              /\ UNCHANGED delivered
  /\ UNCHANGED <<nfut, npush, lastPush, consVars, regVars, flushVars, agentVars, permVars, cancel_sent, via, sess, stream, ptask, plog, pcalls>>

\* the consumer asks for the next update after the yield of line 167:
\* session.py 112-134, a new update_task, then the prompt_task.done() test;
\* when prompt_task is done the new update_task is left behind, never awaited
ResumeL(r) ==
  /\ pc[r] = "yieldL"
  /\ LET c == create_update_task(heap[stream[r]], fut, UFut(r)) IN
       /\ heap' = [heap EXCEPT ![stream[r]] = c.p]
       /\ fut' = c.F
       /\ utask' = [utask EXCEPT ![r] = c.u]
  /\ pc' = [pc EXCEPT ![r] = IF ptask[r] # "running" THEN "sleep" ELSE "wait"]
  /\ UNCHANGED <<nfut, npush, lastPush, consVars, regVars, flushVars, agentVars, permVars, session_streams, is_processing,
                 cancel_sent, via, sess, stream, ptask, dwait, delivered, outcome, plog, pcalls>>

\* session.py 122-131 and 153-162: one asyncio.wait_for(stream.__anext__(), 0.1)
\* of the drain loop, up to its yield, its end or the await of the waiter
DrainStep(r) ==
  LET a == anext(heap[stream[r]], fut, DFut(r)) IN
    IF a.kind = "stop"
      THEN /\ Finalize(r, loop_exit(ptask[r]), heap, fut)
           /\ UNCHANGED delivered
      ELSE /\ heap' = [heap EXCEPT ![stream[r]] = a.p]
           /\ fut' = a.F
           /\ delivered' = [delivered EXCEPT ![r] =
                              IF a.kind = "item" THEN Append(@, a.val) ELSE @]
           /\ pc' = [pc EXCEPT ![r] = IF a.kind = "item" THEN "yieldD" ELSE "drainwait"]
           /\ dwait' = [dwait EXCEPT ![r] = (a.kind = "wait")]
           /\ UNCHANGED <<session_streams, is_processing, outcome, utask>>

\* asyncio.sleep(0.05) is over
SleepDone(r) ==
  /\ pc[r] = "sleep"
  /\ DrainStep(r)
  /\ UNCHANGED <<nfut, npush, lastPush, consVars, regVars, flushVars, agentVars, permVars, cancel_sent, via, sess, stream, ptask, plog, pcalls>>

\* the consumer asks for the next update after a yield of the drain loop
ResumeD(r) ==
  /\ pc[r] = "yieldD"
  /\ DrainStep(r)
  /\ UNCHANGED <<nfut, npush, lastPush, consVars, regVars, flushVars, agentVars, permVars, cancel_sent, via, sess, stream, ptask, plog, pcalls>>

\* the waiter of the drain's __anext__ is done: an item, or end() cancelled it
DrainWake(r) ==
  /\ pc[r] = "drainwait"
  /\ fut[DFut(r)].st \in {"result", "cancelled"}
  /\ LET a == awaited(fut, DFut(r)) IN
       IF a.kind = "item"
         THEN /\ delivered' = [delivered EXCEPT ![r] = Append(@, a.val)]
              /\ pc' = [pc EXCEPT ![r] = "yieldD"]
              /\ dwait' = [dwait EXCEPT ![r] = FALSE]
              /\ fut' = [fut EXCEPT ![DFut(r)] = FreeFuture]
              /\ UNCHANGED <<heap, session_streams, is_processing, outcome, utask>>
         ELSE /\ Finalize(r, loop_exit(ptask[r]), heap, fut)
              /\ UNCHANGED delivered
  /\ UNCHANGED <<nfut, npush, lastPush, consVars, regVars, flushVars, agentVars, permVars, cancel_sent, via, sess, stream, ptask, plog, pcalls>>

\* the drain with a bug: asyncio.wait_for has no timeout
DrainTimeout_never(r) == FALSE /\ UNCHANGED vars

\* the 0.1 s of asyncio.wait_for pass with the waiter still pending: the
\* __anext__ call is cancelled (its waiter stays in _waiters), the drain ends
DrainTimeout(r) ==
  /\ pc[r] = "drainwait"
  /\ fut[DFut(r)].st = "pending"
  /\ Finalize(r, loop_exit(ptask[r]), heap, cancel_future(fut, DFut(r)))
  /\ UNCHANGED <<nfut, npush, lastPush, consVars, regVars, flushVars, agentVars, permVars, cancel_sent, via, sess, stream, ptask,
                 delivered, plog, pcalls>>

\* the consumer stops early: aclose() at a yield runs the finally block
Close(r) ==
  /\ pc[r] \in {"yieldL", "yieldD"}
  /\ Finalize(r, "closed", heap, fut)
  /\ UNCHANGED <<nfut, npush, lastPush, consVars, regVars, flushVars, agentVars, permVars, cancel_sent, via, sess, stream, ptask,
                 delivered, plog, pcalls>>

\* ------------------------------------------- permission handling
\* PendingPermission.resolve(response): a future that is done is left alone
resolve(pp, response) ==
  IF pp.future = NoResponse THEN [pp EXCEPT !.future = response] ELSE pp

\* the fields of the ACPClientHandler object that the permission API uses
Handler ==
  [permission_mode |-> permission_mode,
   on_permission_request |-> on_permission_request,
   counter |-> permission_request_counter,
   pending |-> pending_permissions,
   pobj |-> pobj,
   S |-> session_streams]

\* assignment of the fields of the ACPClientHandler object
StoreHandler(h) ==
  /\ permission_request_counter' = h.counter
  /\ pending_permissions' = h.pending
  /\ pobj' = h.pobj
  /\ session_streams' = h.S
  /\ UNCHANGED <<permission_mode, on_permission_request>>

\* the scan with a bug: the last option of the wanted kinds is taken
first_option_last(options, kinds, i) ==
  LET M == {j \in i..Len(options) : options[j].kind \in kinds} IN
  IF M = {} THEN 0 ELSE CHOOSE j \in M : \A k \in M : k <= j

\* for opt in options: if opt.get("kind") in kinds: the position of the first
\* such option from position i on, 0 when the loop ends without one
RECURSIVE first_option(_, _, _)
first_option(options, kinds, i) ==
  IF i > Len(options) THEN 0
  ELSE IF options[i].kind \in kinds THEN i
  ELSE first_option(options, kinds, i + 1)

\* client_handler.py 175-176 with a bug: the id is taken from the size of the table
next_request_id_from_table(h) == Cardinality(h.pending) + 1

\* client_handler.py 175-176: the counter is incremented and gives the id
next_request_id(h) == h.counter + 1

\* client_handler.py 197-198 with a bug: the entry is not put into the table
register_nothing(h, request_id, session_id) ==
  [h EXCEPT !.pobj[request_id] = PendingPermission(session_id)]

\* client_handler.py 197-198: a PendingPermission is created and registered
register(h, request_id, session_id) ==
  [h EXCEPT !.pending = @ \cup {request_id},
            !.pobj[request_id] = PendingPermission(session_id)]

\* client_handler.py 211-217 with a bug: the last option is taken
fallback_last(options) ==
  IF options = <<>>
    THEN Raised("IndexError")
    ELSE Selected(options[Len(options)].optionId)

\* client_handler.py 211-217: options[0] is selected
fallback(options) ==
  IF options = <<>>
    THEN Raised("IndexError")
    ELSE Selected(options[1].optionId)

\* request_permission with a bug: callback mode goes through the interactive
\* machinery
request_permission_callback_interactive(h, H, F, new, session_id, options, decision, item) ==
  LET return(ret, called) == [h |-> h, H |-> H, F |-> F, ret |-> ret, request_id |-> NoReq,
                              how |-> "none", called |-> called]
      allow == first_option(options, {"allow_once", "allow_always"}, 1)
      reject == first_option(options, {"reject_once", "reject_always"}, 1)
  IN
  IF h.permission_mode = "auto-approve" /\ allow # 0
    THEN return(Selected(options[allow].optionId), NoResponse)
  ELSE IF h.permission_mode = "auto-deny" /\ reject # 0
    THEN return(Selected(options[reject].optionId), NoResponse)
  ELSE IF h.permission_mode \in {"interactive", "callback"}
    THEN LET request_id == next_request_id(h)
             g == get_session_stream(h.S, H, new, session_id)
             GH == g.H
             r == push(GH[g.id], F, item)
         IN [h |-> register([h EXCEPT !.counter = request_id, !.S = g.S],
                            request_id, session_id),
             H |-> [GH EXCEPT ![g.id] = r.p],
             F |-> r.F,
             ret |-> NoResponse,
             request_id |-> request_id,
             how |-> r.how,
             called |-> NoResponse]
  ELSE IF h.on_permission_request
    THEN return(decision, decision)
    ELSE return(fallback(options), NoResponse)

\* ACPClientHandler.request_permission(session_id, tool_call, options) up to
\* its return or its await of pending.future. decision is what the
\* on_permission_request callback returns when it is called, new the object
\* Pushable() returns, item the PermissionRequestUpdate that is built. The
\* result names the value returned (ret), the request id allocated, what
\* push did with the event (how) and what the callback, if called, returned
request_permission(h, H, F, new, session_id, options, decision, item) ==
  LET return(ret, called) == [h |-> h, H |-> H, F |-> F, ret |-> ret, request_id |-> NoReq,
                              how |-> "none", called |-> called]
      allow == first_option(options, {"allow_once", "allow_always"}, 1)
      reject == first_option(options, {"reject_once", "reject_always"}, 1)
  IN
  IF h.permission_mode = "callback" /\ h.on_permission_request
    THEN return(decision, decision)
  ELSE IF h.permission_mode = "auto-approve" /\ allow # 0
    THEN return(Selected(options[allow].optionId), NoResponse)
  ELSE IF h.permission_mode = "auto-deny" /\ reject # 0
    THEN return(Selected(options[reject].optionId), NoResponse)
  ELSE IF h.permission_mode = "interactive"
    THEN LET request_id == next_request_id(h)
             g == get_session_stream(h.S, H, new, session_id)
             GH == g.H
             r == push(GH[g.id], F, item)
         IN [h |-> register([h EXCEPT !.counter = request_id, !.S = g.S],
                            request_id, session_id),
             H |-> [GH EXCEPT ![g.id] = r.p],
             F |-> r.F,
             ret |-> NoResponse,
             request_id |-> request_id,
             how |-> r.how,
             called |-> NoResponse]
  ELSE IF h.on_permission_request
    THEN return(decision, decision)
    ELSE return(fallback(options), NoResponse)

\* respond_to_permission with a bug: a request whose session has no stream
\* any more counts as unknown
respond_to_permission_bound_only(h, request_id, option_id) ==
  IF request_id \notin h.pending \/ h.S[h.pobj[request_id].session_id] = 0
    THEN [h |-> h, ret |-> Raised("ValueError")]
    ELSE [h |-> [h EXCEPT !.pending = @ \ {request_id},
                          !.pobj[request_id] = resolve(@, Selected(option_id))],
          ret |-> ReturnedNone]

\* respond_to_permission with a bug: an unknown id is ignored silently
respond_to_permission_silent(h, request_id, option_id) ==
  IF request_id \notin h.pending
    THEN [h |-> h, ret |-> ReturnedNone]
    ELSE [h |-> [h EXCEPT !.pending = @ \ {request_id},
                          !.pobj[request_id] = resolve(@, Selected(option_id))],
          ret |-> ReturnedNone]

\* respond_to_permission with a bug: the entry stays in the table
respond_to_permission_keep(h, request_id, option_id) ==
  IF request_id \notin h.pending
    THEN [h |-> h, ret |-> Raised("ValueError")]
    ELSE [h |-> [h EXCEPT !.pobj[request_id] = resolve(@, Selected(option_id))],
          ret |-> ReturnedNone]

\* ACPClientHandler.respond_to_permission(request_id, option_id)
respond_to_permission(h, request_id, option_id) ==
  IF request_id \notin h.pending
    THEN [h |-> h, ret |-> Raised("ValueError")]
    ELSE [h |-> [h EXCEPT !.pending = @ \ {request_id},
                          !.pobj[request_id] = resolve(@, Selected(option_id))],
          ret |-> ReturnedNone]

\* cancel_permission with a bug: every pending request is cancelled
cancel_permission_all(h, request_id) ==
  IF request_id \notin h.pending
    THEN [h |-> h, ret |-> Raised("ValueError")]
    ELSE [h |-> [h EXCEPT !.pending = {},
                          !.pobj = [n \in ReqIds |->
                                      IF n \in h.pending THEN resolve(h.pobj[n], Cancelled)
                                      ELSE h.pobj[n]]],
          ret |-> ReturnedNone]

\* ACPClientHandler.cancel_permission(request_id)
cancel_permission(h, request_id) ==
  IF request_id \notin h.pending
    THEN [h |-> h, ret |-> Raised("ValueError")]
    ELSE [h |-> [h EXCEPT !.pending = @ \ {request_id},
                          !.pobj[request_id] = resolve(@, Cancelled)],
          ret |-> ReturnedNone]

\* ACPClientHandler.has_pending_permissions()
has_pending_permissions(h) == h.pending # {}

\* ACPClientHandler.get_pending_permission_ids(session_id)
get_pending_permission_ids(h, session_id) ==
  {request_id \in h.pending : h.pobj[request_id].session_id = session_id}

\* a call of request_permission for session s, made in the turn of run r
\* (NoRun: outside of a prompt turn)
RequestBody(s, options, decision, r) ==
  /\ permission_mode = "interactive" => permission_request_counter < MaxRequests
  /\ session_streams[s] = 0 => HasRoom
  /\ LET q == request_permission(Handler, heap, fut, NewStream, s, options, decision,
                                 npush + 1)
         pushed == q.request_id # NoReq
     IN /\ StoreHandler(q.h)
        /\ heap' = q.H
        /\ fut' = q.F
        /\ npush' = IF pushed THEN npush + 1 ELSE npush
        /\ events' = IF pushed
                       THEN [events EXCEPT ![npush + 1] =
                               [request_id |-> q.request_id, session_id |-> s]]
                       ELSE events
        /\ rcall' = IF pushed
                      THEN [rcall EXCEPT ![q.request_id] =
                              [st |-> "suspended", ret |-> NoResponse, run |-> r]]
                      ELSE rcall
        /\ last' = [op |-> "request_permission", session_id |-> s, options |-> options,
                    request_id |-> q.request_id, option_id |-> NoOption, ret |-> q.ret,
                    decision |-> q.called]

\* the agent calls request_permission(session_id, tool_call, options)
RequestPermission(s, options, decision) ==
  /\ RequestBody(s, options, decision, NoRun)
  /\ UNCHANGED <<nfut, lastPush, consVars, regVars, flushVars, agentVars, is_processing, cancel_sent, via, pc, sess, stream,
                 ptask, utask, dwait, delivered, outcome, plog, pcalls>>

\* the await of pending.future in request_permission returns: the call that
\* allocated request_id returns the future's result to the agent
PermissionReturn(request_id) ==
  /\ rcall[request_id].st = "suspended"
  /\ pobj[request_id].future # NoResponse
  /\ rcall' = [rcall EXCEPT ![request_id] = [@ EXCEPT !.st = "returned",
                                               !.ret = pobj[request_id].future]]
  /\ UNCHANGED <<pushVars, consVars, regVars, flushVars, agentVars, sessVars, permission_mode, on_permission_request,
                 pending_permissions, permission_request_counter, pobj, events, last>>

\* somebody calls handler.respond_to_permission(request_id, option_id)
RespondToPermission(request_id, option_id) ==
  /\ LET q == respond_to_permission(Handler, request_id, option_id) IN
       /\ StoreHandler(q.h)
       /\ last' = [op |-> "respond_to_permission", session_id |-> NoSession,
                   options |-> <<>>, request_id |-> request_id, option_id |-> option_id,
                   ret |-> q.ret, decision |-> NoResponse]
  /\ UNCHANGED <<pushVars, consVars, regVars, flushVars, agentVars, is_processing, cancel_sent, via, pc, sess, stream,
                 ptask, utask, dwait, delivered, outcome, plog, pcalls, rcall, events>>

\* somebody calls handler.cancel_permission(request_id)
CancelPermission(request_id) ==
  /\ LET q == cancel_permission(Handler, request_id) IN
       /\ StoreHandler(q.h)
       /\ last' = [op |-> "cancel_permission", session_id |-> NoSession,
                   options |-> <<>>, request_id |-> request_id, option_id |-> NoOption,
                   ret |-> q.ret, decision |-> NoResponse]
  /\ UNCHANGED <<pushVars, consVars, regVars, flushVars, agentVars, is_processing, cancel_sent, via, pc, sess, stream,
                 ptask, utask, dwait, delivered, outcome, plog, pcalls, rcall, events>>

\* what the on_permission_request callback, when there is one, may return
Decisions == IF on_permission_request THEN CallbackDecisions ELSE {NoResponse}

\* the options lists the agent sends. In interactive mode the list is only
\* copied into the PermissionRequestUpdate, whose options the model does not
\* hold: the list of the tests (test_client_handler.py 135-139) stands for all
OptionsOffered ==
  IF permission_mode = "interactive"
    THEN {OptionList(<<"allow_once", "reject_once">>)}
    ELSE OptionLists

\* the option ids the application answers with: an option of the list and an
\* id that no option has (respond_to_permission does not look at the options)
AnswerIds == {1, MaxOptions + 1}

\* the handler with its permission API, in every permission mode, with and
\* without an on_permission_request callback
InitPermission ==
  /\ InitPushVars
  /\ InitConsVars
  /\ InitRegVars
  /\ InitFlushVars
  /\ InitAgentVars(FullCapabilities)
  /\ InitSessVars
  /\ \E mode \in PermissionModes, handler \in BOOLEAN : InitPermVars(mode, handler)

NextPermission ==
  \/ \E s \in Sessions, options \in OptionsOffered, decision \in Decisions :
       RequestPermission(s, options, decision)
  \/ \E request_id \in ReqIds : PermissionReturn(request_id)
  \/ \E request_id \in ReqIds \cup {NoReq}, option_id \in AnswerIds :
       RespondToPermission(request_id, option_id)
  \/ \E request_id \in ReqIds \cup {NoReq} : CancelPermission(request_id)

SpecPermission == InitPermission /\ [][NextPermission]_vars

\* ------------------------------------ properties of the permission handling
\* the buffer of the queue bound to session s in registry S, empty without one
StreamQueue(S, H, s) == IF S[s] = 0 THEN <<>> ELSE H[S[s]].queue

\* the request ids allocated so far
Allocated == {n \in ReqIds : pobj[n].session_id # NoSession}

\* the step is a call of request_permission / of respond_to_permission or
\* cancel_permission
IsRequest == last' # last /\ last'.op = "request_permission"
IsAnswer == last' # last /\ last'.op \in {"respond_to_permission", "cancel_permission"}

\* the step gives the pending decision of request n its value
Resolving(n) == pobj[n].future = NoResponse /\ pobj'[n].future # NoResponse

\* C13: in interactive mode a call of request_permission for session s pushes
\* exactly one event, carrying the new request id, onto the queue of s and
\* onto no other session's queue, registers a pending entry under that id and
\* is suspended; the call returns only once its decision is set, and a
\* decision is set only by respond_to_permission (selected, with the given
\* option id) or cancel_permission (cancelled) called for that id.
C13_InteractiveRequest ==
  [][/\ (permission_mode = "interactive" /\ IsRequest) =>
          LET n == permission_request_counter'
              s == last'.session_id
          IN /\ n \in ReqIds \ Allocated
             /\ last'.request_id = n
             /\ npush' = npush + 1
             /\ events'[npush'] = [request_id |-> n, session_id |-> s]
             /\ StreamQueue(session_streams', heap', s)
                  = Append(StreamQueue(session_streams, heap, s), npush')
             /\ \A t \in Sessions \ {s} :
                  StreamQueue(session_streams', heap', t) = StreamQueue(session_streams, heap, t)
             /\ pending_permissions' = pending_permissions \cup {n}
             /\ pobj'[n] = PendingPermission(s)
             /\ rcall'[n].st = "suspended"
     /\ \A n \in ReqIds :
          /\ (rcall[n].st = "suspended" /\ rcall'[n].st # "suspended") =>
                /\ rcall'[n].st = "returned"
                /\ pobj[n].future # NoResponse
                /\ rcall'[n].ret = pobj[n].future
          /\ Resolving(n) =>
                /\ IsAnswer
                /\ last'.request_id = n
                /\ last'.ret = ReturnedNone
                /\ last'.op = "respond_to_permission"
                     => pobj'[n].future = Selected(last'.option_id)
                /\ last'.op = "cancel_permission" => pobj'[n].future = Cancelled]_vars

\* C13 witness: two interactive requests of different sessions have
\* returned, one with the option id given to respond_to_permission, the other
\* cancelled.
C13_Witness ==
  /\ rcall[1].st = "returned" /\ rcall[1].ret = Selected(MaxOptions + 1)
  /\ rcall[2].st = "returned" /\ rcall[2].ret = Cancelled
  /\ pobj[1].session_id # pobj[2].session_id

\* C14: respond_to_permission or cancel_permission with a request id that is
\* not in the pending table raises ValueError and leaves the table, every
\* pending decision, every suspended call and every session queue unchanged.
C14_UnknownRequestRejected ==
  [][(IsAnswer /\ last'.request_id \notin pending_permissions) =>
        /\ last'.ret = Raised("ValueError")
        /\ UNCHANGED <<pending_permissions, pobj, rcall, permission_request_counter,
                       session_streams, heap, fut, events, npush>>]_vars

\* C14 witness: cancel_permission with an id that was never allocated has
\* raised ValueError while another request is pending.
C14_Witness ==
  /\ last.op = "cancel_permission"
  /\ last.request_id = NoReq
  /\ last.ret = Raised("ValueError")
  /\ pending_permissions # {}

\* the table holds exactly the requests that are created and undecided
TableIsUndecided ==
  \A n \in ReqIds :
    n \in pending_permissions <=>
      (pobj[n].session_id # NoSession /\ pobj[n].future = NoResponse)

\* C15: a pending permission is resolved at most once. Its entry leaves the
\* table in the step that sets its decision, the decision never changes
\* afterwards, a later respond or cancel for the id raises ValueError, and
\* the call returns the decision that was set first.
C15_ResolvedAtMostOnce ==
  [][/\ TableIsUndecided /\ TableIsUndecided'
     /\ \A n \in ReqIds :
          /\ Resolving(n) => (n \in pending_permissions /\ n \notin pending_permissions')
          /\ pobj[n].future # NoResponse =>
                (pobj'[n].future = pobj[n].future /\ n \notin pending_permissions')
          /\ rcall'[n].st = "returned" => rcall'[n].ret = pobj'[n].future
     /\ (IsAnswer /\ last'.request_id \in ReqIds /\ pobj[last'.request_id].future # NoResponse)
          => (last'.ret = Raised("ValueError") /\ pobj' = pobj)]_vars

\* C15 witness: a request was answered with an option, its call has returned
\* that option, and a later cancel_permission for the same id raised ValueError.
C15_Witness ==
  \E n \in ReqIds :
    /\ rcall[n].st = "returned" /\ rcall[n].ret = Selected(1)
    /\ last.op = "cancel_permission" /\ last.request_id = n
    /\ last.ret = Raised("ValueError")

\* C16: the step that decides one request leaves every other request as it
\* was - pending, undecided, its call suspended - and leaves the pending ids
\* of every other session unchanged; the step that returns one call returns
\* no other call.
C16_IndependentSessions ==
  [][\A n \in ReqIds :
       /\ Resolving(n) =>
            /\ \A m \in ReqIds \ {n} :
                 /\ pobj'[m] = pobj[m]
                 /\ rcall'[m] = rcall[m]
                 /\ m \in pending_permissions' <=> m \in pending_permissions
            /\ \A t \in Sessions \ {pobj[n].session_id} :
                 get_pending_permission_ids(Handler', t) = get_pending_permission_ids(Handler, t)
            /\ get_pending_permission_ids(Handler', pobj[n].session_id)
                 = get_pending_permission_ids(Handler, pobj[n].session_id) \ {n}
       /\ (rcall[n].st = "suspended" /\ rcall'[n].st = "returned") =>
            \A m \in ReqIds \ {n} : rcall'[m] = rcall[m]]_vars

\* C16 witness: of two requests of different sessions the later one was
\* decided and has returned while the earlier one is pending and suspended.
C16_Witness ==
  /\ pobj[1].session_id # NoSession /\ pobj[2].session_id # NoSession
  /\ pobj[1].session_id # pobj[2].session_id
  /\ rcall[2].st = "returned"
  /\ rcall[1].st = "suspended" /\ 1 \in pending_permissions
  /\ get_pending_permission_ids(Handler, pobj[1].session_id) = {1}
  /\ get_pending_permission_ids(Handler, pobj[2].session_id) = {}

\* C17: the request ids of one handler are allocated in strictly increasing
\* order across all sessions: each new id is greater than every id allocated
\* before, the events carry increasing ids in push order, and an id that was
\* allocated - decided or not - is never allocated again.
C17_RequestIdsIncrease ==
  [][/\ Allocated = 1..permission_request_counter
     /\ permission_request_counter' >= permission_request_counter
     /\ \A n \in Allocated' \ Allocated :
          /\ n = permission_request_counter'
          /\ \A m \in Allocated : m < n
     /\ \A n \in Allocated :
          /\ n \in Allocated'
          /\ pobj'[n].session_id = pobj[n].session_id
          /\ pobj[n].future # NoResponse => pobj'[n].future = pobj[n].future
          /\ rcall'[n].st # "none"
     /\ \A j, k \in 1..npush' :
          (j < k /\ events'[j] # NoEvent /\ events'[k] # NoEvent)
             => events'[j].request_id < events'[k].request_id]_vars

\* C17 witness: request 1 of one session was decided and has returned, and
\* the request made for the other session has id 2.
C17_Witness ==
  /\ permission_request_counter = 2
  /\ rcall[1].st = "returned" /\ 1 \notin pending_permissions
  /\ 2 \in pending_permissions
  /\ pobj[1].session_id # pobj[2].session_id
  /\ events[1].request_id = 1 /\ events[2].request_id = 2

AllowKinds == {"allow_once", "allow_always"}
RejectKinds == {"reject_once", "reject_always"}
\* the kinds the policy of the handler looks for
WantedKinds == IF permission_mode = "auto-approve" THEN AllowKinds ELSE RejectKinds
HasKind(options, kinds) == \E i \in 1..Len(options) : options[i].kind \in kinds
\* the first position, in list order, of an option of one of the kinds
FirstOfKinds(options, kinds) ==
  CHOOSE i \in 1..Len(options) :
    /\ options[i].kind \in kinds
    /\ \A j \in 1..(i - 1) : options[j].kind \notin kinds

\* no permission request was ever registered, suspended or pushed
NothingRegistered ==
  /\ permission_request_counter = 0
  /\ pending_permissions = {}
  /\ npush = 0
  /\ \A s \in Sessions : session_streams[s] = 0
  /\ \A n \in ReqIds : rcall[n] = NoCall /\ pobj[n] = NoPending
  /\ \A k \in Items : events[k] = NoEvent

\* C18: under auto-approve (auto-deny) a call of request_permission whose
\* options hold an allow (reject) kind returns 'selected' with the optionId of
\* the first such option in list order; nothing is registered, suspended or
\* pushed.
C18_AutoPolicy ==
  (/\ permission_mode \in {"auto-approve", "auto-deny"}
   /\ last.op = "request_permission"
   /\ HasKind(last.options, WantedKinds))
  => /\ last.ret = Selected(last.options[FirstOfKinds(last.options, WantedKinds)].optionId)
     /\ last.request_id = NoReq
     /\ NothingRegistered

\* C18 witness: auto-approve with options [reject_once, allow_always] has
\* selected the second option.
C18_Witness ==
  /\ permission_mode = "auto-approve"
  /\ last.op = "request_permission"
  /\ last.options = OptionList(<<"reject_once", "allow_always">>)
  /\ last.ret = Selected(2)

\* C19: under auto-approve or auto-deny, with no option of the wanted kind in
\* a non-empty options list and no callback configured, request_permission
\* returns 'selected' with the optionId of the first option of the list;
\* nothing is registered or suspended.
C19_FallbackFirstOption ==
  (/\ permission_mode \in {"auto-approve", "auto-deny"}
   /\ ~on_permission_request
   /\ last.op = "request_permission"
   /\ last.options # <<>>
   /\ ~HasKind(last.options, WantedKinds))
  => /\ last.ret = Selected(last.options[1].optionId)
     /\ last.request_id = NoReq
     /\ NothingRegistered

\* C19 witness: auto-deny with only allow options has selected the first one.
C19_Witness ==
  /\ permission_mode = "auto-deny"
  /\ ~on_permission_request
  /\ last.op = "request_permission"
  /\ last.options = OptionList(<<"allow_once", "allow_always">>)
  /\ last.ret = Selected(1)

\* C20: in callback mode with a callback configured request_permission
\* returns what the callback returned, unchanged; no request id is allocated,
\* no event is pushed to any session queue, the pending table stays empty.
C20_CallbackVerbatim ==
  (permission_mode = "callback" /\ on_permission_request)
  => /\ NothingRegistered
     /\ last.op = "request_permission" =>
          /\ last.decision \in CallbackDecisions
          /\ last.ret = last.decision
          /\ last.request_id = NoReq

\* C20 witness: the callback's own option id was returned for a request
\* whose options do not hold it.
C20_Witness ==
  /\ permission_mode = "callback" /\ on_permission_request
  /\ last.op = "request_permission"
  /\ last.options = OptionList(<<"allow_once">>)
  /\ last.ret = Selected(MaxOptions + 1)

\* C21: the permission handling never fails internally. Whatever the
\* permission mode and the options list of the agent (an empty list and
\* options of unknown kind included), request_permission ends in a decision
\* or suspends on its future, never in an exception; the only exception of
\* the permission API is the ValueError of respond_to_permission and
\* cancel_permission for an id that is not pending.
C21_NoInternalError ==
  /\ last.op = "request_permission" =>
       last.ret.outcome \in {"selected", "cancelled", "none"}
  /\ last.op \in {"respond_to_permission", "cancel_permission"} =>
       last.ret \in {ReturnedNone, Raised("ValueError")}

\* ------------------------------------ the session streams and their readers
\* the objects H once S is the registry and hd what the readers hold: an
\* object that nothing refers to any more is freed, its memory is as new
Collect(H, S, hd) ==
  [i \in StreamIds |->
     IF \/ \E s \in Sessions : S[s] = i
        \/ \E c \in Consumers : hd[c] = i
        \/ \E r \in Runs : Live(r) /\ stream[r] = i
       THEN H[i]
       ELSE NewPushable]

\* the application calls handler.get_session_stream(s) and keeps the object
\* it returns (test_client_handler.py 316, 336-337); a reader stays with one
\* session id and asks again once the object it holds has been ended
TakeStream(c, s) ==
  /\ cpc[c] = "idle"
  /\ hsess[c] \in {NoSession, s}
  /\ held[c] # 0 => heap[held[c]].done
  /\ session_streams[s] = 0 => HasRoom
  /\ LET g == get_session_stream(session_streams, heap, NewStream, s) IN
       /\ session_streams' = g.S
       /\ held' = [held EXCEPT ![c] = g.id]
       /\ heap' = Collect(g.H, g.S, held')
  /\ hsess' = [hsess EXCEPT ![c] = s]
  /\ cres' = [cres EXCEPT ![c] = "none"]
  /\ UNCHANGED <<fut, nfut, npush, lastPush, cpc, cfut, observed, accepted, abandoned,
                 seenAtEnd, origin, flushVars, agentVars, permVars, is_processing, cancel_sent, pc, sess, stream,
                 ptask, utask, dwait, delivered, outcome, plog, via, pcalls>>

\* the application calls handler.end_session_stream(s)
\* (test_client_handler.py 322, 348-349)
EndSessionStream(s) ==
  /\ LET e == end_session_stream(session_streams, heap, fut, s) IN
       /\ session_streams' = e.S
       /\ heap' = Collect(e.H, e.S, held)
       /\ fut' = e.F
  /\ UNCHANGED <<nfut, npush, lastPush, consVars, held, hsess, origin, flushVars, agentVars, permVars,
                 is_processing, cancel_sent, pc, sess, stream, ptask, utask, dwait,
                 delivered, outcome, plog, via, pcalls>>

\* a reader has one __anext__ call at a time, so one future at a time: the
\* memory of the future of its previous call is used again
RFut(c) == IF c = "c1" THEN 1 ELSE 2

\* `async for item in stream` of reader c asks for the next item
\* (test_client_handler.py 326-327): __anext__ of the object it holds runs to
\* its return, raise or await; the loop ends at StopAsyncIteration
StreamNext(c) ==
  /\ cpc[c] = "idle"
  /\ held[c] # 0
  /\ cres[c] # "stop"
  /\ LET r == anext(heap[held[c]], fut, RFut(c)) IN
       /\ heap' = [heap EXCEPT ![held[c]] = r.p]
       /\ fut' = r.F
       /\ cpc' = [cpc EXCEPT ![c] = IF r.kind = "wait" THEN "waiting" ELSE "idle"]
       /\ cfut' = [cfut EXCEPT ![c] = IF r.kind = "wait" THEN RFut(c) ELSE 0]
       /\ cres' = [cres EXCEPT ![c] = r.kind]
       /\ observed' = [observed EXCEPT ![c] = IF r.kind = "item" THEN Append(@, r.val) ELSE @]
  /\ UNCHANGED <<nfut, npush, lastPush, accepted, abandoned, seenAtEnd, sessVars, permVars,
                 regVars, flushVars, agentVars>>

\* the await in __anext__ of reader c returns: its waiter is done, and the
\* future is dropped
StreamWake(c) ==
  /\ cpc[c] = "waiting"
  /\ fut[cfut[c]].st \in {"result", "cancelled"}
  /\ LET r == awaited(fut, cfut[c]) IN
       /\ cres' = [cres EXCEPT ![c] = r.kind]
       /\ observed' = [observed EXCEPT ![c] = IF r.kind = "item" THEN Append(@, r.val) ELSE @]
  /\ cpc' = [cpc EXCEPT ![c] = "idle"]
  /\ cfut' = [cfut EXCEPT ![c] = 0]
  /\ fut' = [fut EXCEPT ![cfut[c]] = FreeFuture]
  /\ UNCHANGED <<heap, nfut, npush, lastPush, accepted, abandoned, seenAtEnd, sessVars,
                 permVars, regVars, flushVars, agentVars>>

\* reader c1 reads session s1, reader c2 session s2
\* (test_client_handler.py 336-337: stream1, stream2)
ReaderSessions(c) == IF c = "c1" THEN {"s1"} ELSE {"s2"}

\* the sessions in which the agent asks for permissions
Asking == {"s1"}

\* one handler in interactive mode, the sessions' streams and their readers
InitStreams ==
  /\ InitPushVars
  /\ InitConsVars
  /\ InitRegVars
  /\ InitFlushVars
  /\ InitAgentVars(FullCapabilities)
  /\ InitSessVars
  /\ InitPermVars("interactive", FALSE)

NextStreams ==
  \/ \E c \in Consumers : \E s \in ReaderSessions(c) : TakeStream(c, s)
  \/ \E s \in Sessions : SessionUpdate(s)
  \/ \E s \in Asking, options \in OptionsOffered :
       npush < MaxPush /\ RequestPermission(s, options, NoResponse)
  \/ \E s \in Sessions : EndSessionStream(s)
  \/ \E c \in Consumers : StreamNext(c)
  \/ \E c \in Consumers : StreamWake(c)

SpecStreams == InitStreams /\ [][NextStreams]_vars

\* the session id an item was pushed for, by session_update or as the
\* PermissionRequestUpdate of request_permission
PushedFor(k) ==
  IF events[k].session_id # NoSession THEN events[k].session_id ELSE origin[k]

\* the sessions that have an entry in the registry
Bound == {s \in Sessions : session_streams[s] # 0}

\* C22: for each session id the registry binds at most one queue at a time,
\* and get_session_stream returns that same queue object, leaving the
\* registry and the queues as they are, as long as end_session_stream was
\* not called for the id: a reader whose queue has not been ended holds the
\* queue that is bound.
C22_SameQueueUntilEnd ==
  /\ \A s \in Bound : \A new \in StreamIds :
       LET g == get_session_stream(session_streams, heap, new, s) IN
         /\ g.id = session_streams[s]
         /\ g.S = session_streams
         /\ g.H = heap
  /\ \A c \in Consumers :
       (held[c] # 0 /\ ~heap[held[c]].done) => held[c] = session_streams[hsess[c]]

\* C22 witness: the reader of s1 holds the bound queue, and the queue holds
\* an item that a later session_update("s1") pushed: both calls of
\* get_session_stream returned the same object.
C22_Witness ==
  /\ held["c1"] # 0
  /\ held["c1"] = session_streams["s1"]
  /\ heap[held["c1"]].queue # <<>>
  /\ observed["c1"] # <<>>

\* C23: end_session_stream(id) ends the bound queue and removes the binding,
\* so that the next get_session_stream(id) returns another object, open and
\* empty, on which __anext__ suspends instead of giving the end of the
\* sequence; a bound queue is never an ended one, and an ended queue that a
\* reader still holds is not the bound one. end_session_stream on an id
\* without binding changes nothing.
C23_EndThenFreshQueue ==
  /\ \A s \in Bound : ~heap[session_streams[s]].done
  /\ \A c \in Consumers :
       (held[c] # 0 /\ heap[held[c]].done) => session_streams[hsess[c]] # held[c]
  /\ \A s \in Bound :
       LET o == session_streams[s]
           e == end_session_stream(session_streams, heap, fut, s)
           eH == e.H
           eS == e.S
       IN /\ eS[s] = 0
          /\ eH[o].done
          /\ \A t \in Sessions \ {s} : eS[t] = session_streams[t]
          /\ \A new \in StreamIds \ {o} :
               LET g == get_session_stream(eS, eH, new, s)
                   gH == g.H
                   gS == g.S
               IN /\ g.id = new
                  /\ gS[s] = new
                  /\ gH[new] = NewPushable
                  /\ anext(gH[new], e.F, 1).kind = "wait"
  /\ \A s \in Sessions \ Bound :
       end_session_stream(session_streams, heap, fut, s)
         = [S |-> session_streams, H |-> heap, F |-> fut]

\* C23 witness: the reader of s1 still holds the queue that was ended, the
\* session is bound again, to another queue that is open and holds an item,
\* and the other session has no binding.
C23_Witness ==
  /\ held["c1"] # 0
  /\ heap[held["c1"]].done
  /\ session_streams["s1"] \notin {0, held["c1"]}
  /\ heap[session_streams["s1"]].queue # <<>>
  /\ session_streams["s2"] = 0

\* C24: the events pushed for a session, by session_update or as an
\* interactive permission request, are delivered through that session's
\* queue only and in the order of the pushes, however the pushes, ends and
\* readers of the other session interleave: a reader has received only
\* items pushed for its session, in increasing push order, a bound queue
\* buffers only items of its session, in push order, and two sessions never
\* share a queue.
C24_PerSessionOrder ==
  /\ \A c \in Consumers :
       /\ Increasing(observed[c])
       /\ \A k \in Elems(observed[c]) : PushedFor(k) = hsess[c]
  /\ \A s \in Bound :
       /\ Increasing(heap[session_streams[s]].queue)
       /\ \A k \in Elems(heap[session_streams[s]].queue) : PushedFor(k) = s
  /\ \A s, t \in Bound : s # t => session_streams[s] # session_streams[t]

\* C24 witness: an update for s1, an update for s2 and then a permission
\* request for s1 were pushed; the reader of s1 has received the first and
\* the third item, the reader of s2 the second.
C24_Witness ==
  /\ observed["c1"] = <<1, 3>>
  /\ observed["c2"] = <<2>>
  /\ events[3].session_id = "s1"
  /\ origin[1] = "s1"

\* ------------------------------------------ properties of Session.prompt
\* run r is the only prompt turn that was ever started
Alone(r) == \A q \in Runs \ {r} : pc[q] = "idle"

\* the items pushed in the turn of run r before the generator saw that
\* prompt_task is done
EarlyItems(r) == {k \in 1..npush : plog[k].run = r /\ plog[k].tag \in {"pre", "mid"}}

\* C1: when a prompt turn (the only one, its prompt call successful) has run
\* to its end without being closed by the consumer, every update
\* pushed before the generator saw the prompt call complete has been yielded,
\* once and in push order - also the update that became available in the
\* step in which the prompt call completed.
C1_EarlyEventsYielded ==
  \A r \in Runs :
    (pc[r] = "done" /\ outcome[r] # "closed" /\ Alone(r) /\ ptask[r] = "ok") =>
       /\ Increasing(delivered[r])
       /\ EarlyItems(r) \subseteq Elems(delivered[r])

\* C2: e1 is pushed while the prompt call runs and is yielded; the prompt
\* call completes and the generator starts its grace-window drain; e2 is
\* pushed during the drain, before it has timed out. The turn then has
\* yielded exactly e1, e2.
C2_GraceWindowDrain ==
  \A r \in Runs :
    (/\ pc[r] = "done" /\ outcome[r] # "closed" /\ Alone(r) /\ ptask[r] = "ok"
     /\ npush = 2
     /\ plog[1] = [run |-> r, tag |-> "pre"]
     /\ plog[2] = [run |-> r, tag |-> "grace"]
     /\ delivered[r] # <<>> /\ delivered[r][1] = 1)
    => delivered[r] = <<1, 2>>

\* C8: the step that finishes a run of Session.prompt - its loop is left, or
\* the consumer closes the generator - leaves the session's flag False, the
\* run's queue ended, the session without a queue, and the next
\* get_session_stream with a new, open, empty queue.
C8_FinalizerRestoresIdle ==
  [][\A r \in Runs :
       (pc[r] # "done" /\ pc'[r] = "done") =>
         /\ is_processing'[sess[r]] = FALSE
         /\ heap'[stream[r]].done
         /\ session_streams'[sess[r]] = 0
         /\ LET g == get_session_stream(session_streams', heap', NewStream', sess[r])
                H == g.H
            IN H[g.id] = NewPushable]_vars

\* C8 witness: one run ended with its prompt call failed, the other was
\* closed early by its consumer, and the session is idle without a queue.
C8_Witness ==
  /\ pc["r1"] = "done" /\ pc["r2"] = "done"
  /\ \E r \in Runs : \E q \in Runs \ {r} :
       /\ outcome[r] = "closed" /\ delivered[r] # <<>>
       /\ outcome[q] = "exhausted" /\ ptask[q] = "error"
  /\ ~is_processing["s1"] /\ session_streams["s1"] = 0

\* C9: a prompt turn (the only one) whose remote prompt call failed, and
\* which the consumer did not close, ends with the failure raised.
C9_PromptErrorRaised ==
  \A r \in Runs :
    (pc[r] = "done" /\ ptask[r] = "error" /\ outcome[r] # "closed" /\ Alone(r))
      => outcome[r] = "raised"

\* C10: at most one run of Session.prompt is live for a session.
C10_OneLiveRun ==
  \A s \in Sessions : Cardinality({r \in Runs : Live(r) /\ sess[r] = s}) <= 1

\* the items pushed for the session of run r while r's remote prompt call
\* was running
DuringCall(r) == {k \in 1..npush : r \in pcalls[k]}

\* C11: a run started by interrupt_with starts its remote prompt call only
\* after the remote cancel was sent; when it has ended without being closed
\* by its consumer, its own prompt call had completed (the run was not ended
\* by the finalizer of the interrupted run) and every update pushed for the
\* session while its prompt call was running has been yielded by it.
C11_InterruptYieldsNewTurn ==
  \A r \in Runs :
    via[r] = "interrupt_with" =>
      /\ ptask[r] # "none" => cancel_sent[sess[r]] >= 1
      /\ (pc[r] = "done" /\ outcome[r] # "closed") =>
            /\ ptask[r] # "running"
            /\ DuringCall(r) \subseteq Elems(delivered[r])

Init ==
  /\ InitPushVars
  /\ InitConsVars
  /\ InitRegVars
  /\ InitFlushVars
  /\ InitAgentVars(FullCapabilities)
  /\ InitSessVars
  /\ InitPermVars("interactive", FALSE)

Next ==
  \/ \E r \in Runs, s \in Prompted : CallPrompt(r, s)
  \/ \E r \in Runs, s \in Prompted : InterruptWith(r, s)
  \/ \E r \in Runs : InterruptStart(r)
  \/ \E s \in Prompted : SessionUpdate(s)
  \/ \E r \in Runs, res \in {"ok", "error"} : PromptComplete(r, res)
  \/ \E r \in Runs : WaitResume(r)
  \/ \E r \in Runs : ResumeL(r)
  \/ \E r \in Runs : SleepDone(r)
  \/ \E r \in Runs : ResumeD(r)
  \/ \E r \in Runs : DrainWake(r)
  \/ \E r \in Runs : DrainTimeout(r)
  \/ \E r \in Runs : Close(r)

Spec == Init /\ [][Next]_vars

\* ------------------------------------------ prompt turns that are iterated
\* a step of the generator of run r: a step that the event loop takes once
\* the awaited task, sleep or timeout is done, or the consumer's request
\* for the next update after a yield
GenStep(r) ==
  \/ WaitResume(r)
  \/ ResumeL(r)
  \/ SleepDone(r)
  \/ ResumeD(r)
  \/ DrainWake(r)
  \/ DrainTimeout(r)

\* the event loop runs what is ready, timers expire, and the consumer of a
\* prompt keeps iterating it (async for) unless it closes it
Fairness == \A r \in Runs : WF_vars(GenStep(r))

SpecLive == Init /\ [][Next]_vars /\ Fairness

\* C26: every prompt run terminates. Once the remote prompt call of a run
\* has completed (the agent pushes finitely many events), the generator
\* ends and the session is Idle; this includes the run whose call
\* completes without any event ever pushed.
C26_PromptTerminates ==
  \A r \in Runs :
    (Live(r) /\ ptask[r] # "running") ~> (pc[r] = "done" /\ ~is_processing[sess[r]])

\* C26 witness: a prompt whose call completed without any event has ended by
\* itself, with nothing yielded, and the session is Idle.
C26_Witness ==
  /\ npush = 0
  /\ pc["r1"] = "done"
  /\ outcome["r1"] = "exhausted"
  /\ ptask["r1"] = "ok"
  /\ delivered["r1"] = <<>>
  /\ pc["r2"] = "idle"
  /\ ~is_processing["s1"]

\* ------------------------------- prompt turns with interactive permissions
\* the agent, in the turn of run r, calls request_permission for the session
AgentRequestPermission(r) ==
  /\ Live(r)
  /\ ptask[r] = "running"
  /\ npush < MaxUpdates
  /\ \E options \in OptionsOffered : RequestBody(sess[r], options, NoResponse, r)
  /\ LET o == IF session_streams[sess[r]] = 0 THEN NewStream ELSE session_streams[sess[r]] IN
       /\ plog' = [plog EXCEPT ![npush + 1] = PushLog(o)]
       /\ pcalls' = [pcalls EXCEPT ![npush + 1] = PromptCalls(sess[r])]
  /\ UNCHANGED <<nfut, lastPush, consVars, regVars, flushVars, agentVars, is_processing, cancel_sent, via, pc, sess, stream,
                 ptask, utask, dwait, delivered, outcome>>

\* run r has yielded the PermissionRequestUpdate of request n to its consumer
Got(r, n) == \E i \in 1..Len(delivered[r]) : events[delivered[r][i]].request_id = n

\* session.py 317-328: the consumer of run r answers a permission request
\* it has received with session.respond_to_permission(request_id, option_id)
ConsumerRespond(r, request_id, option_id) ==
  /\ Got(r, request_id)
  /\ request_id \in pending_permissions
  /\ RespondToPermission(request_id, option_id)

\* session.py 330-339: the consumer of run r answers a permission request
\* it has received with session.cancel_permission(request_id)
ConsumerCancel(r, request_id) ==
  /\ Got(r, request_id)
  /\ request_id \in pending_permissions
  /\ CancelPermission(request_id)

NextInteractive ==
  \/ Next
  \/ \E r \in Runs : AgentRequestPermission(r)
  \/ \E r \in Runs, request_id \in ReqIds, option_id \in AnswerIds :
       ConsumerRespond(r, request_id, option_id)
  \/ \E r \in Runs, request_id \in ReqIds : ConsumerCancel(r, request_id)
  \/ \E request_id \in ReqIds : PermissionReturn(request_id)

SpecInteractive == Init /\ [][NextInteractive]_vars

\* the pushed item that is the PermissionRequestUpdate of request n
EventOf(n) == CHOOSE k \in 1..npush : events[k].request_id = n

\* item k can still reach a consumer: it is buffered in a queue that the
\* registry or a live run holds, or a live run's update task or drain call
\* holds it
Deliverable(k) ==
  \/ \E i \in StreamIds : InUse(i) /\ InSeq(k, heap[i].queue)
  \/ \E r \in Runs :
       /\ Live(r)
       /\ \/ utask[r] = [st |-> "item", val |-> k]
          \/ utask[r].st = "waiting" /\ fut[UFut(r)] = [st |-> "result", val |-> k]
          \/ dwait[r] /\ fut[DFut(r)] = [st |-> "result", val |-> k]

\* C12: while the decision of an interactive permission request made in a
\* prompt turn is outstanding, its event has been yielded to a prompt
\* consumer or can still be yielded to one - so a consumer that answers the
\* events it receives can let the suspended request_permission call return;
\* the agent never waits for a decision on an event that no consumer can get.
C12_NoPermissionDeadlock ==
  \A n \in ReqIds :
    (rcall[n].st = "suspended" /\ n \in pending_permissions)
      => ((\E r \in Runs : Got(r, n)) \/ Deliverable(EventOf(n)))

\* --------------------------- Session.cancel, flush and fork_with_flush
MaxCancels == 1
MaxPolls == 2

\* a remote call issued on the connection
Call(method, session_id) == [method |-> method, session_id |-> session_id]

\* the replies of the agent to the flush extension call, and the exception
\* a failing remote call raises
FlushReplies ==
  {Reply("True", Absent, "path"), Reply("True", Absent, Absent),
   Reply("False", "reported", Absent), Reply("False", Absent, Absent), NoDict}
RemoteError == "remote error"
\* the session id a fork_session result carries
ForkedIds == Sessions \ Prompted

\* dict.get(key, default)
get(d, key, default) == IF d[key] = Absent THEN default ELSE d[key]
\* bool(v) of None, "True", "False"
truthy(v) == v = "True"

\* Session.cancel with a bug: the session is marked idle as well
SessionCancel_marks_idle(s) ==
  /\ cancel_sent' = [cancel_sent EXCEPT ![s] = @ + 1]
  /\ calls' = Append(calls, Call("cancel", s))
  /\ is_processing' = [is_processing EXCEPT ![s] = FALSE]
  /\ UNCHANGED <<pushVars, consVars, permVars, regVars, session_streams, pc, sess,
                 stream, ptask, utask, dwait, delivered, outcome, plog, via, pcalls>>

\* Session.cancel (session.py 179-181): connection.cancel is called for the
\* session, nothing else
SessionCancel(s) ==
  /\ cancel_sent' = [cancel_sent EXCEPT ![s] = @ + 1]
  /\ calls' = Append(calls, Call("cancel", s))
  /\ UNCHANGED <<pushVars, consVars, permVars, regVars, session_streams, is_processing, pc,
                 sess, stream, ptask, utask, dwait, delivered, outcome, plog, via, pcalls>>

\* the application calls session.cancel()
Cancel(s) ==
  /\ cancel_sent[s] < MaxCancels
  /\ SessionCancel(s)
  /\ UNCHANGED <<fop, fpc, polls, became_idle, saw_processing, flush_result, fret, agentVars>>

\* the run that prompts the session
FirstRun == {"r1"}

\* one prompt turn with interactive permissions, during which the
\* application calls session.cancel()
NextCancel ==
  \/ \E r \in FirstRun, s \in Prompted : CallPrompt(r, s)
  \/ \E s \in Prompted : SessionUpdate(s)
  \/ \E r \in FirstRun, res \in {"ok", "error"} : PromptComplete(r, res)
  \/ \E r \in FirstRun : WaitResume(r)
  \/ \E r \in FirstRun : ResumeL(r)
  \/ \E r \in FirstRun : SleepDone(r)
  \/ \E r \in FirstRun : ResumeD(r)
  \/ \E r \in FirstRun : DrainWake(r)
  \/ \E r \in FirstRun : DrainTimeout(r)
  \/ \E r \in FirstRun : Close(r)
  \/ \E r \in FirstRun : AgentRequestPermission(r)
  \/ \E r \in FirstRun, request_id \in ReqIds, option_id \in AnswerIds :
       ConsumerRespond(r, request_id, option_id)
  \/ \E r \in FirstRun, request_id \in ReqIds : ConsumerCancel(r, request_id)
  \/ \E request_id \in ReqIds : PermissionReturn(request_id)
  \/ \E s \in Prompted : Cancel(s)

SpecCancel == Init /\ [][NextCancel]_vars

\* the items pushed so far
Pushed == 1..npush

\* run r was cancelled and goes on: it has not ended while its prompt call
\* is running, unless its consumer closed it, and while the call is running
\* no pushed event is lost - each one has been yielded or is still to come
GoesOn(r) ==
  /\ (pc[r] = "done" /\ outcome[r] # "closed") => ptask[r] # "running"
  /\ (Live(r) /\ ptask[r] = "running") =>
       \A k \in Pushed : k \in Elems(delivered[r]) \/ Deliverable(k)

\* C25: Session.cancel only forwards a cancel request to the remote
\* connection. The step leaves the processing flag, the stream binding, the
\* queues and futures, the pending-permission table and its futures, and
\* every position of the running generator unchanged; and the cancelled run
\* goes on yielding events until it observes the end of the prompt call.
C25_CancelOnlyForwards ==
  [][/\ cancel_sent' # cancel_sent =>
          /\ \E s \in Sessions :
               /\ cancel_sent' = [cancel_sent EXCEPT ![s] = @ + 1]
               /\ calls' = Append(calls, Call("cancel", s))
          /\ UNCHANGED <<is_processing, session_streams, heap, fut, pending_permissions,
                         pobj, rcall, pc, stream, ptask, utask, dwait, delivered, outcome>>
     /\ \A r \in Runs : cancel_sent'[sess'[r]] > 0 => GoesOn(r)'
    ]_vars

\* C25 witness: the cancel was sent in a turn whose prompt call is still
\* running; a permission request is pending, the generator stands at a
\* yield and an event waits in the queue to be yielded next.
C25_Witness ==
  /\ cancel_sent["s1"] = 1
  /\ pc["r1"] = "yieldL"
  /\ ptask["r1"] = "running"
  /\ is_processing["s1"]
  /\ pending_permissions # {}
  /\ session_streams["s1"] # 0
  /\ heap[session_streams["s1"]].queue # <<>>

\* the loop of _wait_for_idle with a bug: the flag is not tested
wait_for_idle_no_flag_test(processing, in_time) ==
  IF ~in_time THEN "False" ELSE "True"

\* one test of the loop of _wait_for_idle (session.py 402-407): in_time is
\* whether the clock is within the timeout; "sleep" is asyncio.sleep(0.1)
wait_for_idle(processing, in_time) ==
  IF ~in_time THEN "False"
  ELSE IF ~processing THEN "True"
  ELSE "sleep"

\* the test of session.py 270 / 366 with a bug: the flag is not looked at
interrupts_on_timeout(b, processing) == ~b

\* session.py 270 / 366: whether the session is interrupted after the wait
interrupts(b, processing) == ~b /\ processing

\* flush with a bug: no except clause
raised_passes(op, exc, message) == RaisedExc(exc, message)

\* how an exception raised by an awaited call leaves the method: flush
\* catches it (session.py 394-395), fork_with_flush lets it pass
raised(op, exc, message) ==
  IF op = "flush" THEN FlushResult(FALSE, None, message) ELSE RaisedExc(exc, message)

\* the handling of the reply with a bug: the restart step is left out
on_reply_no_restart(op, reply) ==
  IF ~truthy(get(reply, "success", None))
    THEN IF op = "flush"
           THEN [go |-> "return",
                 ret |-> FlushResult(FALSE, None, get(reply, "error", "Flush failed"))]
           ELSE [go |-> "return",
                 ret |-> RaisedExc("RuntimeError",
                                   get(reply, "error", "Failed to persist session"))]
    ELSE [go |-> "return", ret |-> FlushResult(TRUE, get(reply, "filePath", None), None)]

\* the handling of the reply with a bug: success is not looked at
on_reply_unchecked(op, reply) == [go |-> "restart", ret |-> NoResult]

\* the handling of the reply with a bug: the reported error is dropped
on_reply_default_error(op, reply) ==
  IF ~truthy(get(reply, "success", None))
    THEN IF op = "flush"
           THEN [go |-> "return", ret |-> FlushResult(FALSE, None, "Flush failed")]
           ELSE [go |-> "return",
                 ret |-> RaisedExc("RuntimeError", "Failed to persist session")]
    ELSE [go |-> "restart", ret |-> NoResult]

\* session.py 380-384 / 285-287: what the method does with the reply of the
\* flush extension call: it ends, or it goes on to _restart_session
on_reply(op, reply) ==
  IF ~truthy(get(reply, "success", None))
    THEN IF op = "flush"
           THEN [go |-> "return",
                 ret |-> FlushResult(FALSE, None, get(reply, "error", "Flush failed"))]
           ELSE [go |-> "return",
                 ret |-> RaisedExc("RuntimeError",
                                   get(reply, "error", "Failed to persist session"))]
    ELSE [go |-> "restart", ret |-> NoResult]

\* session.py 389-392 / 293-315: what the method does once load_session
\* has returned
on_restarted(op, reply) ==
  IF op = "flush"
    THEN [go |-> "return", ret |-> FlushResult(TRUE, get(reply, "filePath", None), None)]
    ELSE [go |-> "fork", ret |-> NoResult]

\* agent_handle.py 242-247: fork_with_flush, awaited by
\* AgentHandle.fork_session, has ended with ret; the forked session is
\* recorded and returned, an exception passes through
ForkSessionResume(ret) ==
  IF hpc = "fork_with_flush"
    THEN /\ hpc' = "done"
         /\ hret' = ret
         /\ handle_sessions' = IF ret.kind = "Session"
                                  THEN handle_sessions \cup {ret.session_id}
                                  ELSE handle_sessions
         /\ UNCHANGED <<capabilities, hop, needs_flush>>
    ELSE UNCHANGED agentVars

\* the method ends with ret, and its caller goes on
Return(ret) ==
  /\ fpc' = "done"
  /\ fret' = ret
  /\ ForkSessionResume(ret)

\* the method goes to its next await
GoOn(to) ==
  /\ fpc' = to
  /\ UNCHANGED <<fret, agentVars>>

\* session.py 269-282 / 365-378: _wait_for_idle has returned b; the cancel
\* or the flush extension call is issued
AfterWait(s, b) ==
  /\ became_idle' = b
  /\ saw_processing' = is_processing[s]
  /\ IF interrupts(b, is_processing[s])
       THEN /\ SessionCancel(s)
            /\ fpc' = "cancel"
       ELSE /\ calls' = Append(calls, Call("_session/flush", s))
            /\ fpc' = "ext"
            /\ UNCHANGED <<pushVars, consVars, permVars, regVars, sessVars>>
  /\ UNCHANGED <<flush_result, fret>>

\* one turn of the loop of _wait_for_idle, up to its sleep or its return
WaitTurn(s, in_time) ==
  LET t == wait_for_idle(is_processing[s], in_time) IN
    IF t = "sleep"
      THEN /\ fpc' = "poll"
           /\ UNCHANGED <<became_idle, saw_processing, calls, flush_result, fret, pushVars,
                          consVars, permVars, regVars, sessVars>>
      ELSE AfterWait(s, t = "True")

\* the application calls session.flush() or session.fork_with_flush()
FlushCall(op, s, in_time) ==
  /\ fop = "none"
  /\ fop' = op
  /\ polls' = MaxPolls
  /\ WaitTurn(s, in_time)
  /\ UNCHANGED agentVars

\* asyncio.sleep(0.1) of _wait_for_idle is over: the loop tests again
PollWake(s, in_time) ==
  /\ fpc = "poll"
  /\ in_time => polls > 0
  /\ polls' = IF in_time THEN polls - 1 ELSE polls
  /\ WaitTurn(s, in_time)
  /\ UNCHANGED <<fop, agentVars>>

\* every step of the method after the wait leaves the session as it is
FlushFrame == UNCHANGED <<pushVars, consVars, permVars, regVars, sessVars, fop, polls,
                          became_idle, saw_processing>>

\* the await of self.cancel() returns or raises (session.py 271 / 367)
CancelReturn(ok) ==
  /\ fpc = "cancel"
  /\ IF ok
       THEN GoOn("settle")
       ELSE Return(raised(fop, "Exception", RemoteError))
  /\ UNCHANGED <<calls, flush_result>>
  /\ FlushFrame

\* asyncio.sleep(0.5) is over: the flush extension call is issued
SettleDone(s) ==
  /\ fpc = "settle"
  /\ calls' = Append(calls, Call("_session/flush", s))
  /\ GoOn("ext")
  /\ UNCHANGED flush_result
  /\ FlushFrame

\* the flush extension call returns reply, or raises when ok is FALSE
ExtReturn(s, ok, reply) ==
  /\ fpc = "ext"
  /\ IF ~ok
       THEN /\ Return(raised(fop, "Exception", RemoteError))
            /\ UNCHANGED <<calls, flush_result>>
       ELSE LET q == on_reply(fop, reply) IN
            /\ flush_result' = reply
            /\ IF q.go = "return"
                 THEN Return(q.ret) /\ UNCHANGED calls
                 ELSE /\ calls' = Append(calls, Call("load_session", s))
                      /\ GoOn("load")
  /\ FlushFrame

\* load_session of _restart_session returns, or raises when ok is FALSE
LoadReturn(s, ok) ==
  /\ fpc = "load"
  /\ IF ~ok
       THEN Return(raised(fop, "Exception", RemoteError)) /\ UNCHANGED calls
       ELSE LET q == on_restarted(fop, flush_result) IN
            IF q.go = "return"
              THEN Return(q.ret) /\ UNCHANGED calls
              ELSE /\ calls' = Append(calls, Call("fork_session", s))
                   /\ GoOn("fork")
  /\ UNCHANGED flush_result
  /\ FlushFrame

\* fork_session returns a result with session id n, or raises when ok is FALSE
ForkReturn(ok, n) ==
  /\ fpc = "fork"
  /\ IF ok
       THEN Return(NewSession(n))
       ELSE Return(raised(fop, "Exception", RemoteError))
  /\ UNCHANGED <<calls, flush_result>>
  /\ FlushFrame

InitFlush == Init

NextFlush ==
  \/ \E r \in FirstRun, s \in Prompted : CallPrompt(r, s)
  \/ \E s \in Prompted : SessionUpdate(s)
  \/ \E r \in FirstRun, res \in {"ok", "error"} : PromptComplete(r, res)
  \/ \E r \in FirstRun : WaitResume(r)
  \/ \E r \in FirstRun : ResumeL(r)
  \/ \E r \in FirstRun : SleepDone(r)
  \/ \E r \in FirstRun : ResumeD(r)
  \/ \E r \in FirstRun : DrainWake(r)
  \/ \E r \in FirstRun : DrainTimeout(r)
  \/ \E r \in FirstRun : Close(r)
  \/ \E op \in {"flush", "fork_with_flush"}, s \in Prompted, in_time \in BOOLEAN :
       FlushCall(op, s, in_time)
  \/ \E s \in Prompted, in_time \in BOOLEAN : PollWake(s, in_time)
  \/ \E ok \in BOOLEAN : CancelReturn(ok)
  \/ \E s \in Prompted : SettleDone(s)
  \/ \E s \in Prompted, ok \in BOOLEAN, reply \in FlushReplies : ExtReturn(s, ok, reply)
  \/ \E s \in Prompted, ok \in BOOLEAN : LoadReturn(s, ok)
  \/ \E ok \in BOOLEAN, n \in ForkedIds : ForkReturn(ok, n)

SpecFlush == InitFlush /\ [][NextFlush]_vars

\* the methods of the remote calls issued so far, in order
Methods == [i \in 1..Len(calls) |-> calls[i].method]
Issued(m) == {i \in 1..Len(calls) : calls[i].method = m}
\* _wait_for_idle has returned
Waited == fop # "none" /\ fpc # "poll"
\* the flush extension call has returned a reply
Replied == flush_result # Unset

\* C27: in the flush-based paths the remote calls are issued in a fixed
\* order: the flush extension call first; load_session only directly after
\* it, once it reported success, and for the same session id; fork_session
\* only in fork_with_flush, directly after load_session, once that has
\* returned. flush() then returns success with the reported file path,
\* fork_with_flush a new session with the session id of the fork result.
C27_FlushCallOrder ==
  /\ \A m \in {"_session/flush", "load_session", "fork_session"} : Cardinality(Issued(m)) <= 1
  /\ \A j \in Issued("load_session") :
       /\ j > 1
       /\ calls[j - 1] = Call("_session/flush", calls[j].session_id)
       /\ Replied /\ truthy(flush_result.success)
  /\ \A k \in Issued("fork_session") :
       /\ k > 1
       /\ calls[k - 1] = Call("load_session", calls[k].session_id)
       /\ fop = "fork_with_flush"
       /\ fpc \in {"fork", "done"}
  /\ \A i \in 1..Len(calls) : calls[i].session_id \in Prompted
  /\ (fret.kind = "FlushResult" /\ fret.success) =>
       /\ fop = "flush"
       /\ Len(calls) >= 2
       /\ Methods[Len(calls) - 1] = "_session/flush"
       /\ Methods[Len(calls)] = "load_session"
       /\ fret.file_path = (IF flush_result.filePath = Absent THEN None
                             ELSE flush_result.filePath)
  /\ fret.kind = "Session" =>
       /\ fop = "fork_with_flush"
       /\ Len(calls) >= 3
       /\ Methods[Len(calls) - 2] = "_session/flush"
       /\ Methods[Len(calls) - 1] = "load_session"
       /\ Methods[Len(calls)] = "fork_session"
       /\ fret.session_id \in ForkedIds

\* C27 witness: fork_with_flush has interrupted the session, flushed it,
\* restarted it, forked it and returned the new session.
C27_Witness ==
  /\ fop = "fork_with_flush"
  /\ Methods = <<"cancel", "_session/flush", "load_session", "fork_session">>
  /\ flush_result = Reply("True", Absent, "path")
  /\ fret = NewSession("s2")

\* C28: flush() on a session that stays Processing through the whole idle
\* timeout goes on: it issues the cancel and then the flush extension call,
\* and returns a FlushResult. flush() never raises: a timeout of the idle
\* wait is no error, and every failure - a reply without success, a cancel,
\* flush or load_session call that raises - is returned as success=False
\* with an error message.
C28_FlushNeverRaises ==
  fop = "flush" =>
    /\ fret.kind \in {"none", "FlushResult"}
    /\ fpc = "done" <=> fret.kind = "FlushResult"
    /\ (Waited /\ ~became_idle /\ saw_processing) =>
         /\ Methods[1] = "cancel"
         /\ \/ fpc \in {"cancel", "settle"}
            \/ fret = FlushResult(FALSE, None, RemoteError) /\ Len(calls) = 1
            \/ Len(calls) >= 2 /\ Methods[2] = "_session/flush"
    /\ fret.kind = "FlushResult" =>
         IF fret.success
           THEN /\ fret.error = None
                /\ Replied /\ truthy(flush_result.success)
           ELSE /\ fret.error \in {RemoteError, "reported", "Flush failed"}
                /\ fret.file_path = None

\* C28 witness: the session was Processing at every test of the idle wait
\* and when the wait ran out; flush() cancelled, flushed, restarted and
\* returned success.
C28_Witness ==
  /\ fop = "flush"
  /\ polls = 0
  /\ ~became_idle /\ saw_processing
  /\ Methods = <<"cancel", "_session/flush", "load_session">>
  /\ fret = FlushResult(TRUE, "path", None)

\* C29: when the flush extension call reports no success, flush() returns a
\* failure result with the reported error or the default message;
\* fork_with_flush raises RuntimeError with that message, issues neither
\* load_session nor fork_session and creates no session.
C29_FlushFailureReported ==
  (Replied /\ ~truthy(flush_result.success)) =>
    /\ fpc = "done"
    /\ Issued("load_session") = {} /\ Issued("fork_session") = {}
    /\ fop = "flush" =>
         fret = FlushResult(FALSE, None,
                            IF flush_result.error = Absent THEN "Flush failed"
                            ELSE flush_result.error)
    /\ fop = "fork_with_flush" =>
         fret = RaisedExc("RuntimeError",
                          IF flush_result.error = Absent THEN "Failed to persist session"
                          ELSE flush_result.error)

\* C29 witness: the agent answered the flush call of fork_with_flush with
\* success false and an error; the method raised it.
C29_Witness ==
  /\ fop = "fork_with_flush"
  /\ flush_result = Reply("False", "reported", Absent)
  /\ fret = RaisedExc("RuntimeError", "reported")
  /\ Methods = <<"_session/flush">>

\* C30: flush() and fork_with_flush issue the remote cancel only when the
\* idle wait ran out while the session is still Processing; when the
\* session was seen Idle within the timeout, or is Idle when the wait has
\* ended, no cancel is issued and the flush extension call comes first.
C30_CancelOnlyWhenStillProcessing ==
  /\ ~Waited => calls = <<>>
  /\ Waited =>
       IF ~became_idle /\ saw_processing
         THEN Issued("cancel") = {1}
         ELSE /\ Issued("cancel") = {}
              /\ Methods[1] = "_session/flush"

\* C30 witness: the session was Processing when the wait began and Idle
\* when it ran out: the flush call was issued without a cancel.
C30_Witness ==
  /\ Waited
  /\ polls < MaxPolls
  /\ ~became_idle /\ ~saw_processing
  /\ pc["r1"] = "done"
  /\ Methods[1] = "_session/flush"

\* ----------------- AgentHandle.fork_session, load_session and Session.fork
UnsupportedFork == "Agent does not support forking sessions"
UnsupportedLoad == "Agent does not support loading sessions"

\* agent_handle.py 231: self._sessions.get(session_id)
source_session(S, session_id) == IF session_id \in S THEN session_id ELSE None

\* agent_handle.py 234-238: the value of needs_flush
NeedsFlush(force_flush, src, processing) ==
  \/ force_flush
  \/ (src # None /\ processing)
  \/ src = None

\* agent_handle.py 240: whether fork_with_flush of the source session is used
uses_fork_with_flush(nf, src) == nf /\ src # None

\* the session the flush-based method in progress was called on
FlushedSession ==
  IF hpc = "fork_with_flush" THEN hop.session_id ELSE CHOOSE s \in Prompted : TRUE

\* no call of the AgentHandle or of the flush-based methods is in progress
Quiet == hpc \in {"idle", "done"} /\ fpc \in {"idle", "done"}

\* AgentHandle.fork_session(session_id, cwd, options) up to its first await
\* (agent_handle.py 224-253); in_time is the first clock test of
\* _wait_for_idle
ForkSession(session_id, force_flush, in_time) ==
  /\ Quiet
  /\ hop.op # "fork_session" /\ fop = "none"
  /\ hop' = HandleCall("fork_session", session_id, force_flush)
  /\ IF ~capabilities.fork
       THEN /\ hpc' = "done"
            /\ hret' = RaisedExc("RuntimeError", UnsupportedFork)
            /\ UNCHANGED <<needs_flush, flushVars, pushVars, consVars, permVars, regVars,
                           sessVars>>
       ELSE LET src == source_session(handle_sessions, session_id)
                nf == NeedsFlush(force_flush, src,
                                 IF src = None THEN FALSE ELSE is_processing[src])
            IN /\ needs_flush' = nf
               /\ hret' = NoResult
               /\ IF uses_fork_with_flush(nf, src)
                    THEN /\ hpc' = "fork_with_flush"
                         /\ fop' = "fork_with_flush"
                         /\ polls' = MaxPolls
                         /\ WaitTurn(src, in_time)
                    ELSE /\ hpc' = "fork"
                         /\ calls' = Append(calls, Call("fork_session", session_id))
                         /\ UNCHANGED <<fop, fpc, polls, became_idle, saw_processing,
                                        flush_result, fret, pushVars, consVars, permVars,
                                        regVars, sessVars>>
  /\ UNCHANGED <<capabilities, handle_sessions>>

\* agent_handle.py 250-277: connection.fork_session returns a result with
\* session id n, or raises when ok is FALSE
DirectForkReturn(ok, n) ==
  /\ hpc = "fork"
  /\ hpc' = "done"
  /\ IF ok
       THEN /\ hret' = NewSession(n)
            /\ handle_sessions' = handle_sessions \cup {n}
       ELSE /\ hret' = RaisedExc("Exception", RemoteError)
            /\ UNCHANGED handle_sessions
  /\ UNCHANGED <<capabilities, hop, needs_flush, flushVars, pushVars, consVars, permVars,
                 regVars, sessVars>>

\* AgentHandle.load_session(session_id, cwd) up to its await
\* (agent_handle.py 173-184)
LoadSession(session_id) ==
  /\ Quiet
  /\ hop.op = "none"
  /\ hop' = HandleCall("load_session", session_id, FALSE)
  /\ IF ~capabilities.loadSession
       THEN /\ hpc' = "done"
            /\ hret' = RaisedExc("RuntimeError", UnsupportedLoad)
            /\ UNCHANGED calls
       ELSE /\ hpc' = "load"
            /\ hret' = NoResult
            /\ calls' = Append(calls, Call("load_session", session_id))
  /\ UNCHANGED <<capabilities, handle_sessions, needs_flush, fop, fpc, polls, became_idle,
                 saw_processing, flush_result, fret, pushVars, consVars, permVars, regVars,
                 sessVars>>

\* agent_handle.py 180-208: connection.load_session returns, or raises when
\* ok is FALSE; the new Session object is recorded under its id
HandleLoadReturn(ok) ==
  /\ hpc = "load"
  /\ hpc' = "done"
  /\ IF ok
       THEN /\ hret' = NewSession(hop.session_id)
            /\ handle_sessions' = handle_sessions \cup {hop.session_id}
       ELSE /\ hret' = RaisedExc("Exception", RemoteError)
            /\ UNCHANGED handle_sessions
  /\ UNCHANGED <<capabilities, hop, needs_flush, flushVars, pushVars, consVars, permVars,
                 regVars, sessVars>>

\* Session.fork() up to its await (session.py 222-225)
SessionFork(s) ==
  /\ Quiet
  /\ fop = "none"
  /\ fop' = "fork"
  /\ fpc' = "fork"
  /\ calls' = Append(calls, Call("fork_session", s))
  /\ UNCHANGED <<polls, became_idle, saw_processing, flush_result, fret, agentVars, pushVars,
                 consVars, permVars, regVars, sessVars>>

\* the application calls session.flush() or session.fork_with_flush() itself
DirectFlushCall(op, s, in_time) ==
  /\ Quiet
  /\ FlushCall(op, s, in_time)

\* the ids load_session is called with: sessions the handle has no object of
Loadable == Sessions \ Prompted

InitFork ==
  /\ InitPushVars
  /\ InitConsVars
  /\ InitRegVars
  /\ InitFlushVars
  /\ InitSessVars
  /\ InitPermVars("interactive", FALSE)
  /\ \E caps \in Capabilities : InitAgentVars(caps)

\* one prompt turn on the session, and the calls that fork, load or flush
NextFork ==
  \/ \E r \in FirstRun, s \in Prompted : CallPrompt(r, s)
  \/ \E r \in FirstRun, res \in {"ok", "error"} : PromptComplete(r, res)
  \/ \E r \in FirstRun : WaitResume(r)
  \/ \E r \in FirstRun : SleepDone(r)
  \/ \E r \in FirstRun : DrainTimeout(r)
  \/ \E session_id \in Sessions, force_flush \in BOOLEAN, in_time \in BOOLEAN :
       ForkSession(session_id, force_flush, in_time)
  \/ \E ok \in BOOLEAN, n \in ForkedIds : DirectForkReturn(ok, n)
  \/ \E session_id \in Loadable : LoadSession(session_id)
  \/ \E ok \in BOOLEAN : HandleLoadReturn(ok)
  \/ \E s \in Prompted : SessionFork(s)
  \/ \E op \in {"flush", "fork_with_flush"}, s \in Prompted, in_time \in BOOLEAN :
       DirectFlushCall(op, s, in_time)
  \/ \E in_time \in BOOLEAN : PollWake(FlushedSession, in_time)
  \/ \E ok \in BOOLEAN : CancelReturn(ok)
  \/ SettleDone(FlushedSession)
  \/ \E ok \in BOOLEAN, reply \in FlushReplies : ExtReturn(FlushedSession, ok, reply)
  \/ \E ok \in BOOLEAN : LoadReturn(FlushedSession, ok)
  \/ \E ok \in BOOLEAN, n \in ForkedIds : ForkReturn(ok, n)

SpecFork == InitFork /\ [][NextFork]_vars

\* C31: AgentHandle.fork_session, once past its capability check, issues
\* the direct fork call exactly when the source session has a local record,
\* that record is idle and force_flush is not set; in every other case -
\* force_flush set, the session processing, or no local record of the
\* session id - it takes the flush-based path and issues no fork call yet.
C31_DirectForkOnlyWhenKnownIdle ==
  [][(hop' # hop /\ hop'.op = "fork_session" /\ capabilities.fork) =>
       LET sid == hop'.session_id
           known_idle == /\ sid \in handle_sessions
                         /\ ~is_processing[sid]
                         /\ ~hop'.force_flush
       IN /\ known_idle =>
               /\ hpc' = "fork"
               /\ calls' = Append(calls, Call("fork_session", sid))
          /\ ~known_idle =>
               /\ hpc' = "fork_with_flush"
               /\ fop' = "fork_with_flush"
               /\ Issued("fork_session")' = Issued("fork_session")
    ]_vars

\* C32: every remote load_session call was issued to an agent that
\* advertised loadSession and every remote fork_session call to an agent
\* that advertised sessionCapabilities.fork - whichever method issued it -
\* and a call of AgentHandle.fork_session / load_session on an agent without
\* the capability has ended with the unsupported-capability error.
C32_NoCallWithoutCapability ==
  /\ \A i \in 1..Len(calls) :
       /\ calls[i].method = "load_session" => capabilities.loadSession
       /\ calls[i].method = "fork_session" => capabilities.fork
  /\ (hop.op = "fork_session" /\ ~capabilities.fork) =>
       (hpc = "done" /\ hret = RaisedExc("RuntimeError", UnsupportedFork))
  /\ (hop.op = "load_session" /\ ~capabilities.loadSession) =>
       (hpc = "done" /\ hret = RaisedExc("RuntimeError", UnsupportedLoad))

\* the flush extension call was issued and has returned or raised
FlushCallOver == Issued("_session/flush") # {} /\ fpc # "ext"
\* the position of the flush extension call among the calls
FlushAt == CHOOSE i \in Issued("_session/flush") : TRUE

\* C33 as stated: when flush() or fork_with_flush has issued the flush
\* extension call and has returned or raised, a load_session call for the
\* same session id was issued after the flush call - whether the flush
\* reported success or failure.
C33_RestartAfterEveryFlush ==
  (fpc = "done" /\ Issued("_session/flush") # {}) =>
     \E j \in Issued("load_session") :
       /\ j > FlushAt
       /\ calls[j].session_id = calls[FlushAt].session_id

\* C33 amended: once the flush extension call of flush() or fork_with_flush
\* has returned a reply that reports success, the next call issued is
\* load_session for the same session id, before the operation returns or
\* raises; when the reply reports no success, or the call raised, the
\* operation has ended and no load_session was issued.
C33_RestartAfterSuccessfulFlush ==
  FlushCallOver =>
    IF Replied /\ truthy(get(flush_result, "success", None))
      THEN /\ Len(calls) > FlushAt
           /\ calls[FlushAt + 1] = Call("load_session", calls[FlushAt].session_id)
      ELSE /\ fpc = "done"
           /\ Issued("load_session") = {}

\* C33 witness: flush() of an idle session got a success reply without a
\* file path, restarted the session and returned success.
C33_Witness ==
  /\ fop = "flush"
  /\ fpc = "done"
  /\ Methods = <<"_session/flush", "load_session">>
  /\ flush_result = Reply("True", Absent, Absent)
  /\ fret = FlushResult(TRUE, None, None)

\* C34: a push on an open Pushable never discards its item - also after an
\* earlier __anext__ call was abandoned by a timeout or a cancellation:
\* every item pushed before end() has been received by a consumer, is held
\* by a consumer that was handed it, or is in the buffer.
C34_PushNeverDiscards ==
  /\ lastPush # "dropped"
  /\ \A k \in Elems(accepted) :
       \/ k \in Elems(heap[P0].queue)
       \/ \E c \in Consumers : k \in Elems(observed[c] \o InFlight(c))

\* C35: while a run of Session.prompt has started and not yet finalized,
\* its session's flag is Processing, the queue it reads is open and is the
\* one bound to the session: no finalizer of another run on the session has
\* reset the flag or ended the queue.
C35_ProcessingWhileLive ==
  \A r \in Runs :
    Live(r) =>
      /\ is_processing[sess[r]]
      /\ ~heap[stream[r]].done
      /\ session_streams[sess[r]] = stream[r]

\* run r yields pushed item k to its consumer in this step
Receives(r, k) == delivered'[r] = Append(delivered[r], k)

\* C36: in the step in which a prompt consumer receives a
\* PermissionRequestUpdate, its request id is registered in the pending
\* table and its request_permission call is suspended, so that
\* respond_to_permission or cancel_permission called on receipt returns
\* without the unknown-request error.
C36_RegisteredOnReceipt ==
  [][\A r \in Runs : \A k \in Items :
       (Receives(r, k) /\ events[k].request_id # NoReq) =>
          LET n == events[k].request_id IN
            /\ n \in pending_permissions'
            /\ rcall'[n].st = "suspended"
            /\ pobj'[n] = PendingPermission(events[k].session_id)
            /\ \A o \in OptionIds :
                 respond_to_permission(Handler', n, o).ret = ReturnedNone
            /\ cancel_permission(Handler', n).ret = ReturnedNone
    ]_vars

\* C36 witness: the consumer has received the event of request 1 after an
\* ordinary update and has answered it; the agent's call has returned.
C36_Witness ==
  /\ delivered["r1"] = <<1, 2>>
  /\ events[2].request_id = 1
  /\ last.op = "respond_to_permission" /\ last.request_id = 1
  /\ last.ret = ReturnedNone
  /\ rcall[1].st = "returned"

\* C37: in the step in which flush() or fork_with_flush issues the flush
\* extension call for a session, the session's flag is Idle or the
\* operation has issued a remote cancel for the session before; the call
\* is never issued against a Processing session that was not interrupted.
C37_FlushOnlyIdleOrInterrupted ==
  [][Issued("_session/flush")' # Issued("_session/flush") =>
       LET s == calls'[Len(calls')].session_id IN
         /\ calls' = Append(calls, Call("_session/flush", s))
         /\ \/ ~is_processing[s] /\ ~is_processing'[s]
            \/ \E i \in Issued("cancel") : calls[i].session_id = s
    ]_vars

\* C37 witness: fork_with_flush has interrupted a session whose prompt turn
\* is still live, and has issued the flush extension call while the flag is
\* still Processing.
C37_Witness ==
  /\ fop = "fork_with_flush"
  /\ fpc = "ext"
  /\ calls = <<Call("cancel", "s1"), Call("_session/flush", "s1")>>
  /\ is_processing["s1"]
  /\ Live("r1")

\* the stream of session s is ended in this step
Ends(s) == session_streams[s] # 0 /\ session_streams'[s] = 0

\* C38: a step that ends a session's stream - end_session_stream, and so the
\* finalizer of a prompt run - leaves the pending-permission table, its
\* PendingPermission objects and the suspended request_permission calls as
\* they are; every request still undecided stays suspended, and
\* respond_to_permission and cancel_permission still resolve it.
C38_EndKeepsPendingPermissions ==
  [][\A s \in Sessions :
       Ends(s) =>
         /\ UNCHANGED <<pending_permissions, pobj, rcall, permission_request_counter>>
         /\ \A n \in pending_permissions' :
              /\ rcall'[n].st = "suspended"
              /\ pobj'[n].future = NoResponse
              /\ \A o \in OptionIds :
                   LET q == respond_to_permission(Handler', n, o) IN
                     /\ q.ret = ReturnedNone
                     /\ q.h.pobj[n].future = Selected(o)
                     /\ n \notin q.h.pending
              /\ LET c == cancel_permission(Handler', n) IN
                   /\ c.ret = ReturnedNone
                   /\ c.h.pobj[n].future = Cancelled
    ]_vars

\* C38 witness: the consumer received the event of request 1 and the turn
\* has ended - the queue ended and unbound, the session idle - with the
\* request unanswered: it is still registered and its call suspended.
C38_Witness ==
  /\ pc["r1"] = "done"
  /\ session_streams["s1"] = 0
  /\ heap[stream["r1"]].done
  /\ ~is_processing["s1"]
  /\ Got("r1", 1)
  /\ 1 \in pending_permissions
  /\ rcall[1] = [st |-> "suspended", ret |-> NoResponse, run |-> "r1"]
  /\ pobj[1] = PendingPermission("s1")

\* C39: every queue bound in the session-stream table is open, so the push
\* that session_update or request_permission makes into the queue it gets
\* from the registry - the bound one, or a new one - is never ignored as a
\* push into an ended queue.
C39_BoundQueuesOpen ==
  \A s \in Sessions :
    /\ session_streams[s] # 0 => ~is_done(heap[session_streams[s]])
    /\ (session_streams[s] # 0 \/ HasRoom) =>
         LET g == get_session_stream(session_streams, heap, NewStream, s)
             H == g.H
         IN push(H[g.id], fut, npush + 1).how \in {"handed", "buffered", "dropped"}

\* C39 witness: a reader still holds the queue of s1 that was ended after
\* it had received an update; s1 is bound to a new queue, and a
\* PermissionRequestUpdate pushed since then is buffered in it.
C39_Witness ==
  /\ held["c1"] # 0
  /\ heap[held["c1"]].done
  /\ observed["c1"] # <<>>
  /\ session_streams["s1"] \notin {0, held["c1"]}
  /\ \E k \in 1..npush :
       /\ events[k].request_id # NoReq
       /\ InSeq(k, heap[session_streams["s1"]].queue)

\* C40: in every state of a Pushable the buffer and the waiter list are not
\* both non-empty, and a Pushable that was ended has no waiters.
C40_BufferOrWaiters ==
  \A i \in StreamIds :
    /\ heap[i].queue = <<>> \/ heap[i].waiters = <<>>
    /\ heap[i].done => heap[i].waiters = <<>>

\* C40 witness: the Pushable was ended while one consumer was suspended and
\* the waiter of an abandoned call was still listed; an item pushed before
\* had been handed over, one pushed after the end was ignored.
C40_Witness ==
  /\ heap[P0] = [queue |-> <<>>, waiters |-> <<>>, done |-> TRUE]
  /\ abandoned
  /\ lastPush = "ignored"
  /\ \E c \in Consumers : observed[c] # <<>>
  /\ \E f, g \in 1..nfut : f # g /\ fut[f].st = "cancelled" /\ fut[g].st = "cancelled"
====
